---------------------------- MODULE Spec2Model ----------------------------
(***************************************************************************)
(* A model of the SourcePawn v2 lexer with its integrated preprocessor     *)
(* (src/v2/lexer.cpp).  One Lexer object scans one source buffer.  The     *)
(* parser drives it by calling Lexer::next; everything next calls (scan,   *)
(* the directive engine, the skip engine) is part of that one step.        *)
(*                                                                         *)
(* Characters are one-character strings; the buffer is a sequence of       *)
(* them.  A source location is a byte offset into the buffer.              *)
(***************************************************************************)
EXTENDS Integers, Sequences, FiniteSets, TLC

VARIABLES
  buf,                    \* buffer_->chars(), chars_[0 .. length-1]
  pos_,                   \* cursor, as an offset from chars_
  line_number_,
  lexing_for_directive_,
  suppress_errors_,
  lexed_tokens_on_line_,
  ifstack_,               \* Vector<IfContext>
  literal_,               \* scratch buffer, without the trailing NUL
  options_,               \* LexOptions
  macro_expansion,        \* pp_.macro_expansion()
  macros,                 \* the preprocessor's macro table
  macroq,                 \* tokens of the macro the preprocessor is replaying
  includes,               \* files handed to pp_.enterFile
  diags,                  \* diagnostics in the order they were reported
  comments,               \* pp_.addComment calls
  hung,                   \* a loop of the running call can never end
  events,                 \* history: what the last call to next did inside
  tokens,                 \* history: kinds the parser has received
  last,                   \* the token the last call returned
  done,                   \* TOK_EOF was returned
  asserts,                \* assertions that did not hold
  deprecation,            \* pp_.setNextDeprecationMessage
  dynamic,                \* cc_.ChangePragmaDynamic
  directives,             \* history: the directives dispatched so far
  char_is_signed          \* the build: whether plain char is a signed type

vars == <<buf, pos_, line_number_, lexing_for_directive_, suppress_errors_,
          lexed_tokens_on_line_, ifstack_, literal_, options_, macro_expansion,
          macros, macroq, includes, diags, comments, hung, events, tokens,
          last, done, asserts, deprecation, dynamic, directives,
          char_is_signed>>

---------------------------------------------------------------------------
(* Characters and character classes                                        *)

NUL == "NUL"
LF == "\n"
CR == "\r"
TAB == "\t"
FF == "\f"
DQ == "\""
SQ == "'"
BSL == "\\"

Lower == {"a","b","c","d","e","f","g","h","i","j","k","l","m",
          "n","o","p","q","r","s","t","u","v","w","x","y","z"}
Upper == {"A","B","C","D","E","F","G","H","I","J","K","L","M",
          "N","O","P","Q","R","S","T","U","V","W","X","Y","Z"}
Digits == {"0","1","2","3","4","5","6","7","8","9"}

DigitVal(c) ==
  CASE c = "0" -> 0 [] c = "1" -> 1 [] c = "2" -> 2 [] c = "3" -> 3
    [] c = "4" -> 4 [] c = "5" -> 5 [] c = "6" -> 6 [] c = "7" -> 7
    [] c = "8" -> 8 [] c = "9" -> 9

IsDigit(c) == c \in Digits

IsHexDigit(c) ==
  IsDigit(c) \/ c \in {"a","b","c","d","e","f"} \/ c \in {"A","B","C","D","E","F"}

IsLineTerminator(c) == c = LF \/ c = CR \/ c = NUL

IsSkipSpace(c) == c = " " \/ c = TAB \/ c = FF

IsIdentStart(c) == c \in Lower \/ c \in Upper \/ c = "_"

IsIdentChar(c) == IsIdentStart(c) \/ IsDigit(c)

---------------------------------------------------------------------------
(* Source locations                                                        *)

NoLoc == 0 - 1

isSet(loc) == loc # NoLoc

---------------------------------------------------------------------------
(* The cursor.  lexer.h is not among the sources; these follow section 4.A *)
(* and invariant 1 of the specification: begin <= pos <= end, and a read   *)
(* at end yields the NUL sentinel.                                         *)

end_ == Len(buf)

peekChar(s) == IF s.pos >= end_ THEN NUL ELSE buf[s.pos + 1]

advance(s) == IF s.pos >= end_ THEN s ELSE [s EXCEPT !.pos = @ + 1]

\* char c = readChar(): the character goes to the register c.
readChar(s) == [advance(s) EXCEPT !.c = peekChar(s)]

matchChar(s, ch) == peekChar(s) = ch

backup(s) == [s EXCEPT !.pos = @ - 1]

lastpos(s) == s.pos - 1

---------------------------------------------------------------------------
(* Diagnostics                                                             *)

\* cc_.report(loc, id): the compile context's reporter, never suppressed.
cc_report(s, loc, id) == [s EXCEPT !.diags = Append(@, [id |-> id, loc |-> loc])]

\* Lexer::report: silent while suppress_errors_ is set.
report(s, loc, id) == IF s.suppress_errors THEN s ELSE cc_report(s, loc, id)

\* assert(cond): a failed assertion is recorded; the scan goes on as it does
\* in a build without assertions.
assert(s, cond, what) == IF cond THEN s ELSE [s EXCEPT !.asserts = Append(@, what)]

\* History of what a call did inside, for the properties below.
log(s, op, kind) ==
  [s EXCEPT !.events = Append(@, [op |-> op, kind |-> kind, pos |-> s.pos,
                                  line |-> s.line_number,
                                  lfd |-> s.lexing_for_directive,
                                  ltol |-> s.lexed_tokens_on_line,
                                  sup |-> s.suppress_errors,
                                  mexp |-> s.macro_expansion,
                                  nd |-> Len(s.diags),
                                  start |-> s.tok.start,
                                  lit |-> s.literal,
                                  val |-> s.tok.val,
                                  nm |-> DOMAIN s.macros,
                                  stack |-> s.ifstack])]

setKind(s, k) == [s EXCEPT !.kind = k]

\* A local of the C++ code: bind(e, LAMBDA x : body) is `T x = e;` followed by body.
bind(x, K(_)) == K(x)

---------------------------------------------------------------------------
(* Small scanners                                                          *)

RECURSIVE skipSpaces(_)
skipSpaces(s) == IF IsSkipSpace(peekChar(s)) THEN skipSpaces(readChar(s)) ELSE s

RECURSIVE firstNonSpaceLoop(_)
firstNonSpaceLoop(s) == IF IsSkipSpace(s.c) THEN firstNonSpaceLoop(readChar(s)) ELSE s

firstNonSpaceChar(s) == firstNonSpaceLoop(readChar(s))

RECURSIVE untilTerminator(_)
untilTerminator(s) ==
  IF IsLineTerminator(peekChar(s)) THEN s ELSE untilTerminator(readChar(s))

\* buf[i+1] for an offset i; the byte at end is the terminating NUL.
charAt(i) == IF i >= end_ THEN NUL ELSE buf[i + 1]

RECURSIVE trimEnd(_, _)
trimEnd(e, b) ==
  IF e > b /\ (IsSkipSpace(charAt(e)) \/ IsLineTerminator(charAt(e)))
  THEN trimEnd(e - 1, b) ELSE e

\* readUntilEnd: the text [begin, end) of the rest of the line, trimmed.
readUntilEnd(s) ==
  bind(skipSpaces(s), LAMBDA b :
  bind(untilTerminator(b), LAMBDA u :
     [u EXCEPT !.rangeb = b.pos, !.rangee = trimEnd(u.pos, b.pos) + 1]))

RECURSIVE hexLoop(_)
hexLoop(s) ==
  bind(readChar(s), LAMBDA r :
  IF ~IsHexDigit(r.c) THEN backup(r)
  ELSE hexLoop([r EXCEPT !.literal = Append(@, r.c)]))

hexLiteral(s) == setKind(hexLoop([s EXCEPT !.literal = <<>>]), "TOK_HEX_LITERAL")

\* for (;;) { c = readChar(); if (!IsDigit(c)) break; literal_.append(c); }
RECURSIVE digitsNoBackup(_)
digitsNoBackup(s) ==
  bind(readChar(s), LAMBDA r :
  IF ~IsDigit(r.c) THEN r ELSE digitsNoBackup([r EXCEPT !.literal = Append(@, r.c)]))

\* the same loop with pos_-- before the break
RECURSIVE digitsBackup(_)
digitsBackup(s) ==
  bind(readChar(s), LAMBDA r :
  IF ~IsDigit(r.c) THEN backup(r) ELSE digitsBackup([r EXCEPT !.literal = Append(@, r.c)]))

numberExponent(s) ==
  \* after matchChar('e'): c still holds the character that ended the fraction
  bind(readChar([s EXCEPT !.literal = Append(@, s.c)]), LAMBDA a :
  bind(IF a.c = "-" THEN readChar([a EXCEPT !.literal = Append(@, a.c)]) ELSE a, LAMBDA b :
     IF ~IsDigit(b.c)
     THEN bind(backup(b), LAMBDA k :
          setKind(cc_report(k, k.pos, "expected_digit_for_float"), "TOK_UNKNOWN"))
     ELSE setKind(digitsBackup([b EXCEPT !.literal = Append(@, b.c)]), "TOK_FLOAT_LITERAL")))

numberFraction(s) ==
  \* after the '.': s.c is '.'
  bind(readChar([s EXCEPT !.literal = Append(@, s.c)]), LAMBDA a :
  IF ~IsDigit(a.c)
  THEN setKind(cc_report(a, a.pos, "expected_digit_for_float"), "TOK_UNKNOWN")
  ELSE bind(digitsBackup([a EXCEPT !.literal = Append(@, a.c)]), LAMBDA f :
       IF ~matchChar(f, "e") THEN setKind(f, "TOK_FLOAT_LITERAL")
       ELSE numberExponent(advance(f))))

numberLiteral(s, first) ==
  bind(digitsNoBackup([s EXCEPT !.literal = <<first>>]), LAMBDA d :
  IF Len(d.literal) = 1 /\ d.literal[1] = "0" /\ (d.c = "x" \/ d.c = "X")
  THEN hexLiteral(d)
  ELSE IF d.c # "." THEN setKind(backup(d), "TOK_INTEGER_LITERAL")
  ELSE numberFraction(d))

HexDigitToValue(c) ==
  IF IsDigit(c) THEN DigitVal(c)
  ELSE CASE c \in {"a","A"} -> 10 [] c \in {"b","B"} -> 11 [] c \in {"c","C"} -> 12
         [] c \in {"d","D"} -> 13 [] c \in {"e","E"} -> 14 [] c \in {"f","F"} -> 15

\* The accumulator is a uint64_t in the source; the model keeps the checked
\* arithmetic and narrows the word to UintBits bits.
UintBits == 16
UintMax == 2^UintBits - 1

\* a build that does not check the addition
TryUint64Add_unchecked(a, b) == TRUE

TryUint64Multiply(a, b) == a * b <= UintMax
TryUint64Add(a, b) == a + b <= UintMax

\* The decoding loop shared in shape by the two integer cases of handleNumber:
\* val = val * 10 + digit with both steps checked.
RECURSIVE decodeDigits(_, _, _)
decodeDigits(s, i, val) ==
  IF i > Len(s.literal) THEN [s EXCEPT !.tok.val = val]
  ELSE LET digit == HexDigitToValue(s.literal[i]) IN
       IF ~TryUint64Multiply(val, 10)
       THEN [report(s, s.tok.start, "int_literal_overflow") EXCEPT !.tok.val = val]
       ELSE IF ~TryUint64Add(val * 10, digit)
       THEN [report(s, s.tok.start, "int_literal_overflow") EXCEPT !.tok.val = val * 10]
       ELSE decodeDigits(s, i + 1, val * 10 + digit)

\* ParseDouble, as a decimal: the value is m * 10^e.
RECURSIVE digitRun(_, _, _)
digitRun(lit, i, acc) ==
  IF i <= Len(lit) /\ IsDigit(lit[i])
  THEN digitRun(lit, i + 1, [n |-> acc.n * 10 + DigitVal(lit[i]), k |-> acc.k + 1, i |-> i + 1])
  ELSE acc

ParseDouble(lit) ==
  LET ip == digitRun(lit, 1, [n |-> 0, k |-> 0, i |-> 1]) IN
  LET fp == digitRun(lit, ip.i + 1, [n |-> 0, k |-> 0, i |-> ip.i + 1]) IN
  LET hasE == fp.i <= Len(lit) /\ lit[fp.i] = "e" IN
  LET neg == hasE /\ fp.i + 1 <= Len(lit) /\ lit[fp.i + 1] = "-" IN
  LET ex == IF hasE
            THEN digitRun(lit, fp.i + (IF neg THEN 2 ELSE 1),
                          [n |-> 0, k |-> 0, i |-> fp.i + (IF neg THEN 2 ELSE 1)])
            ELSE [n |-> 0, k |-> 0, i |-> fp.i] IN
  LET tenk == 10 ^ fp.k IN
     [m |-> ip.n * tenk + fp.n, e |-> (IF neg THEN 0 - ex.n ELSE ex.n) - fp.k]

handleNumber(s, first) ==
  bind(numberLiteral(log(s, "handleNumber", ""), first), LAMBDA n :
  bind(CASE n.kind = "TOK_INTEGER_LITERAL" -> decodeDigits(n, 1, 0)
         [] n.kind = "TOK_HEX_LITERAL" -> decodeDigits(n, 1, 0)
         [] n.kind = "TOK_FLOAT_LITERAL" -> [n EXCEPT !.tok.dbl = ParseDouble(n.literal)]
         [] OTHER -> assert(n, FALSE, "handleNumber"), LAMBDA r :
     log(r, "handleNumber_done", r.kind)))

RECURSIVE nameLoop(_)
nameLoop(s) ==
  bind(readChar(s), LAMBDA r :
  IF ~IsIdentChar(r.c) THEN backup(r)
  ELSE nameLoop([r EXCEPT !.literal = Append(@, r.c)]))

name(s, first) == setKind(nameLoop([s EXCEPT !.literal = <<first>>]), "TOK_NAME")

---------------------------------------------------------------------------
(* The preprocessor facade and the atom table.  preprocessor.h and          *)
(* compile-context.h are not among the sources; these follow section 6 of  *)
(* the specification.  An atom is the interned byte sequence itself.        *)

kw_define == <<"#","d","e","f","i","n","e">>
kw_undef == <<"#","u","n","d","e","f">>
kw_if == <<"#","i","f">>
kw_else == <<"#","e","l","s","e">>
kw_endif == <<"#","e","n","d","i","f">>
kw_include == <<"#","i","n","c","l","u","d","e">>
kw_tryinclude == <<"#","t","r","y","i","n","c","l","u","d","e">>
kw_endinput == <<"#","e","n","d","i","n","p","u","t">>
kw_pragma == <<"#","p","r","a","g","m","a">>

\* findKeyword(atom): TOK_NONE when the atom is no keyword.
findKeyword(atom) ==
  CASE atom = kw_define -> "TOK_M_DEFINE"
    [] atom = kw_undef -> "TOK_M_UNDEF"
    [] atom = kw_if -> "TOK_M_IF"
    [] atom = kw_else -> "TOK_M_ELSE"
    [] atom = kw_endif -> "TOK_M_ENDIF"
    [] atom = kw_include -> "TOK_M_INCLUDE"
    [] atom = kw_tryinclude -> "TOK_M_TRYINCLUDE"
    [] atom = kw_endinput -> "TOK_M_ENDINPUT"
    [] atom = kw_pragma -> "TOK_M_PRAGMA"
    [] atom = <<"i","f">> -> "TOK_IF"
    [] atom = <<"e","l","s","e">> -> "TOK_ELSE"
    [] atom = <<"d","o">> -> "TOK_DO"
    [] OTHER -> "TOK_NONE"

isMacro(s, atom) == atom \in DOMAIN s.macros

\* enterMacro(loc, atom): pushes the macro's tokens as a virtual source.
enterMacro(s, loc, atom) == [s EXCEPT !.macroq = s.macros[atom]]

defineMacro(s, atom, loc, toks) ==
  [s EXCEPT !.macros = (atom :> toks) @@ s.macros]

\* removeMacro(loc, atom): whether there was a macro to drop.
removeMacro(s, loc, atom) ==
  [s EXCEPT !.macros = [a \in (DOMAIN s.macros) \ {atom} |-> s.macros[a]],
            !.ret = isMacro(s, atom)]

enterFile(s, directive, loc, filename, where) ==
  [log(s, "enterFile", directive) EXCEPT !.includes = Append(@, [directive |-> directive, loc |-> loc,
                                    file |-> filename, where |-> where])]

addComment(s, where, first, lastc) ==
  [s EXCEPT !.comments = Append(@, [where |-> where, first |-> first, last |-> lastc])]

---------------------------------------------------------------------------
(* Escape codes, character and string literals                             *)

INT_MAX == 2147483647

\* The narrowing of an int to the char r of readEscapeCode; whether char is
\* signed is the implementation's choice.
ToChar(n) == IF char_is_signed THEN ((n + 128) % 256) - 128 ELSE n % 256

\* The character with a given code, for bytes stored from an escape.
CodeChar(n) ==
  CASE n = 10 -> LF [] n = 13 -> CR [] n = 9 -> TAB [] n = 12 -> FF
    [] n = 63 -> "?" [] OTHER -> "\\" \o ToString(n)

escRet(s, ch, code) == [s EXCEPT !.esc = [c |-> ch, code |-> code]]

\* while (IsHexDigit(c) && digits < 2) { c = ...; digits++; c = readChar(); }
RECURSIVE escHexLoop(_, _)
escHexLoop(s, digits) ==
  IF IsHexDigit(s.c) /\ digits < 2 THEN escHexLoop(readChar(s), digits + 1) ELSE s

\* while (IsDigit(c)) { r = r * 10 + (c - '0'); c = readChar(); }
RECURSIVE escDecLoop(_, _)
escDecLoop(s, r) ==
  IF IsDigit(s.c) THEN escDecLoop(readChar(s), ToChar(r * 10 + DigitVal(s.c)))
  ELSE [s EXCEPT !.esc = [c |-> CodeChar(r), code |-> r]]

readEscapeCode(s) ==
  bind(readChar(s), LAMBDA r :
  LET c == r.c IN
     CASE c = BSL -> escRet(r, c, 92)
       [] c = "a" -> escRet(r, CodeChar(7), 7)
       [] c = "b" -> escRet(r, CodeChar(8), 8)
       [] c = "e" -> escRet(r, CodeChar(27), 27)
       [] c = "f" -> escRet(r, FF, 12)
       [] c = "n" -> escRet(r, LF, 10)
       [] c = "r" -> escRet(r, CR, 13)
       [] c = "t" -> escRet(r, TAB, 9)
       [] c = "v" -> escRet(r, CodeChar(11), 11)
       [] c = "x" ->
            \* char r = 0 is what is returned: the digits only ever go to c
            bind(escHexLoop(readChar(r), 0), LAMBDA h :
            bind(IF h.c # ";" THEN backup(h) ELSE h, LAMBDA k :
               escRet(k, CodeChar(0), 0)))
       [] c = SQ -> escRet(r, c, 39)
       [] c = DQ -> escRet(r, c, 34)
       [] c = "%" -> escRet(r, c, 37)
       [] OTHER ->
            IF IsDigit(c)
            THEN bind(escDecLoop(r, 0), LAMBDA d :
                 IF d.c # ";" THEN backup(d) ELSE d)
            ELSE escRet(cc_report(r, lastpos(r), "unknown_escapecode"), "?", INT_MAX))

charLiteral(s) ==
  bind(readChar(s), LAMBDA a :
  IF a.c = SQ
  THEN setKind(report(a, a.tok.start, "invalid_char_literal"), "TOK_UNKNOWN")
  ELSE bind(IF a.c = BSL
                THEN bind(readEscapeCode(a), LAMBDA e : [e EXCEPT !.tok.chr = e.esc])
                ELSE [a EXCEPT !.tok.chr = [c |-> a.c, code |-> NoLoc]], LAMBDA v :
       bind(readChar(v), LAMBDA b :
       bind(IF b.c # SQ
                THEN bind(report(b, b.tok.start, "bad_char_terminator"), LAMBDA w :
                     IF b.c # DQ THEN backup(w) ELSE w)
                ELSE b, LAMBDA t :
          setKind(t, "TOK_CHAR_LITERAL")))))

RECURSIVE stringLoop(_)
stringLoop(s) ==
  bind(readChar(s), LAMBDA r :
  IF r.c = DQ
  THEN setKind([r EXCEPT !.tok.atom = r.literal], "TOK_STRING_LITERAL")
  ELSE IF r.c = CR \/ r.c = LF \/ r.c = NUL
  THEN setKind(cc_report(r, r.tok.start, "unterminated_string"), "TOK_STRING_LITERAL")
  ELSE IF r.c = BSL
  THEN bind(readEscapeCode(r), LAMBDA e :
       LET ch == IF e.esc.code = INT_MAX THEN "?" ELSE e.esc.c IN
          stringLoop([e EXCEPT !.literal = Append(@, ch)]))
  ELSE stringLoop([r EXCEPT !.literal = Append(@, r.c)]))

stringLiteral(s) == stringLoop([s EXCEPT !.literal = <<>>])

\* a lexer that looks for the ':' of a label before it looks for a keyword
handleIdentifier_labelFirst(s, first) ==
  bind(name(s, first), LAMBDA n :
  LET atom == n.literal IN
  LET t == [n EXCEPT !.tok.atom = atom] IN
     bind(IF t.macro_expansion /\ isMacro(t, atom)
          THEN setKind([log(enterMacro(t, t.tok.start, atom), "enterMacro", "TOK_NONE")
                          EXCEPT !.lexed_tokens_on_line = TRUE], "TOK_NONE")
          ELSE IF matchChar(t, ":") THEN setKind(advance(t), "TOK_LABEL")
          ELSE LET kind == findKeyword(atom) IN
               IF kind # "TOK_NONE" THEN setKind(t, kind)
               ELSE setKind(t, "TOK_NAME"), LAMBDA r :
        log(r, "handleIdentifier", r.kind)))

handleIdentifier(s, first) ==
  bind(name(s, first), LAMBDA n :
  LET atom == n.literal IN
  LET t == [n EXCEPT !.tok.atom = atom] IN
     bind(IF t.macro_expansion /\ isMacro(t, atom)
          THEN setKind([log(enterMacro(t, t.tok.start, atom), "enterMacro", "TOK_NONE")
                          EXCEPT !.lexed_tokens_on_line = TRUE], "TOK_NONE")
          ELSE LET kind == findKeyword(atom) IN
               IF kind # "TOK_NONE" THEN setKind(t, kind)
               ELSE IF matchChar(t, ":") THEN setKind(advance(t), "TOK_LABEL")
               ELSE setKind(t, "TOK_NAME"), LAMBDA r :
        log(r, "handleIdentifier", r.kind)))

maybeKeyword(s, first) ==
  bind(name(s, first), LAMBDA n : setKind(n, findKeyword(n.literal)))

---------------------------------------------------------------------------
(* Comments, line counting, whitespace                                     *)

\* a loop that can never end: the call does not return
hang(s, where) == [log(s, "hang", where) EXCEPT !.hung = TRUE]

advanceLine(s, c) ==
  bind(log(s, "advanceLine", c), LAMBDA e :
  bind(assert(e, c = CR \/ c = LF, "advanceLine"), LAMBDA a :
  bind(IF c = CR
           THEN bind(readChar(a), LAMBDA x : IF x.c # LF THEN backup(x) ELSE x)
           ELSE a, LAMBDA r :
     [r EXCEPT !.line_number = @ + 1, !.lexed_tokens_on_line = FALSE, !.c = s.c])))

endComment(s) ==
  setKind([s EXCEPT !.tok.end = s.pos, !.tok.endLine = s.line_number], "TOK_COMMENT")

singleLineComment(s) == endComment(untilTerminator(s))

RECURSIVE multiLineLoop(_)
multiLineLoop(s) ==
  bind(readChar(s), LAMBDA r :
  IF r.c = CR \/ r.c = LF
  THEN bind(advanceLine(r, r.c), LAMBDA a :
       \* a CR that is the last byte is read again and again
       IF a.pos <= s.pos THEN hang(a, "multiLineComment") ELSE multiLineLoop(a))
  ELSE IF r.c = NUL THEN cc_report(r, r.tok.start, "unterminated_comment")
  ELSE IF r.c = "*" /\ matchChar(r, "/") THEN advance(r)
  ELSE multiLineLoop(r))

multiLineComment(s) ==
  bind(multiLineLoop(s), LAMBDA m : IF m.hung THEN m ELSE endComment(m))

\* Returns the first character to parse from in the register c.
RECURSIVE consumeWhitespace(_)
consumeWhitespace(s) ==
  bind(readChar(s), LAMBDA r :
  IF r.c = LF \/ r.c = CR
  THEN IF r.lexing_for_directive THEN backup(r)
       ELSE bind(advanceLine(r, r.c), LAMBDA a :
            IF a.pos <= s.pos THEN hang(a, "consumeWhitespace")
            ELSE consumeWhitespace(a))
  ELSE IF r.c = " " \/ r.c = TAB \/ r.c = FF THEN consumeWhitespace(r)
  ELSE r)

---------------------------------------------------------------------------
(* The if-stack                                                            *)

IfContext(first, state) == [first |-> first, state |-> state, elseloc |-> NoLoc]

hasIf(s) == Len(s.ifstack) > 0

\* currentIf(): the top context; callers test hasIf first, as the source
\* tests for nullptr.
currentIf(s) == s.ifstack[Len(s.ifstack)]

pop(stack) == SubSeq(stack, 1, Len(stack) - 1)

topActive(s) == ~hasIf(s) \/ currentIf(s).state = "Active"

\* a check that takes every open context for one without #else
checkIfStackAtEndOfFile_ifOnly(s) ==
  IF hasIf(s)
  THEN cc_report(s, currentIf(s).first, "unterminated_if")
  ELSE s

checkIfStackAtEndOfFile(s) ==
  IF hasIf(s)
  THEN IF isSet(currentIf(s).elseloc)
       THEN cc_report(s, currentIf(s).elseloc, "unterminated_else")
       ELSE cc_report(s, currentIf(s).first, "unterminated_if")
  ELSE s

\* pp_.handleEndOfFile(): the preprocessor has the lexer verify its #if
\* blocks; this lexer reads the outermost file, so no other file is resumed.
handleEndOfFile(s) ==
  [log(checkIfStackAtEndOfFile(log(s, "checkIfStackAtEndOfFile", "")),
       "handleEndOfFile", "") EXCEPT !.ret = FALSE]

\* The part of the state that decides what the scanner does next: all of it
\* but the outputs it only appends to, the line counter and the registers.
Ctl(s) == <<s.pos, s.lexing_for_directive, s.suppress_errors, s.lexed_tokens_on_line,
            s.ifstack, s.macro_expansion, s.macros, s.macroq, s.options>>

---------------------------------------------------------------------------
(* scan and the directive engine                                           *)

RECURSIVE scan(_), directive_next(_), chewLoop(_, _, _), evalLoop(_, _),
          macroTokensLoop(_, _), handlePreprocessorDirective(_),
          enterPreprocessorDirective(_), handleIfContext(_), ifContextLoop(_),
          handleDirectiveWhileInactive(_)

\* "Token tok;": no position, no payload.
NoAtom == <<"(no atom)">>

FreshToken ==
  [start |-> NoLoc, startLine |-> 0, end |-> NoLoc, endLine |-> 0, val |-> 0,
   atom |-> NoAtom, chr |-> [c |-> NUL, code |-> NoLoc], dbl |-> [m |-> 0, e |-> 0]]

\* tok->init(TokenPos(lastpos(), line_number_), range_.id): a token that
\* starts here; the end is written when the token is complete.
initTok(s) ==
  [s EXCEPT !.tok = [FreshToken EXCEPT !.start = lastpos(s),
                                       !.startLine = s.line_number,
                                       !.end = s.tok.end, !.endLine = s.tok.endLine]]

\* if (matchChar(ch)) return k1;  (otherwise fall to the next test)
m1(s, ch, k1, other) == IF matchChar(s, ch) THEN setKind(advance(s), k1) ELSE other

punctuator(s, c) ==
  CASE c = ";" -> setKind(s, "TOK_SEMICOLON")
    [] c = "{" -> setKind(s, "TOK_LBRACE")
    [] c = "}" -> setKind(s, "TOK_RBRACE")
    [] c = "(" -> setKind(s, "TOK_LPAREN")
    [] c = ")" -> setKind(s, "TOK_RPAREN")
    [] c = "[" -> setKind(s, "TOK_LBRACKET")
    [] c = "]" -> setKind(s, "TOK_RBRACKET")
    [] c = "~" -> setKind(s, "TOK_TILDE")
    [] c = "?" -> setKind(s, "TOK_QMARK")
    [] c = ":" -> setKind(s, "TOK_COLON")
    [] c = "," -> setKind(s, "TOK_COMMA")
    [] c = "." ->
         IF matchChar(s, ".")
         THEN IF matchChar(advance(s), ".")
              THEN setKind(advance(advance(s)), "TOK_ELLIPSES")
              ELSE setKind(backup(advance(s)), "TOK_DOT")
         ELSE setKind(s, "TOK_DOT")
    [] c = "/" ->
         IF matchChar(s, "=") THEN setKind(advance(s), "TOK_ASSIGN_DIV")
         ELSE IF matchChar(s, "/") THEN singleLineComment(advance(s))
         ELSE IF matchChar(s, "*") THEN multiLineComment(advance(s))
         ELSE setKind(s, "TOK_SLASH")
    [] c = "*" -> m1(s, "=", "TOK_ASSIGN_MUL", setKind(s, "TOK_STAR"))
    [] c = "+" -> m1(s, "=", "TOK_ASSIGN_ADD",
                  m1(s, "+", "TOK_INCREMENT", setKind(s, "TOK_PLUS")))
    [] c = "&" -> m1(s, "=", "TOK_ASSIGN_BITAND",
                  m1(s, "&", "TOK_AND", setKind(s, "TOK_BITAND")))
    [] c = "|" -> m1(s, "=", "TOK_ASSIGN_BITOR",
                  m1(s, "|", "TOK_OR", setKind(s, "TOK_BITOR")))
    [] c = "^" -> m1(s, "=", "TOK_ASSIGN_BITXOR", setKind(s, "TOK_BITXOR"))
    [] c = "%" -> m1(s, "=", "TOK_ASSIGN_MOD", setKind(s, "TOK_PERCENT"))
    [] c = "-" -> m1(s, "=", "TOK_ASSIGN_SUB",
                  m1(s, "-", "TOK_DECREMENT", setKind(s, "TOK_MINUS")))
    [] c = "!" -> m1(s, "=", "TOK_NOTEQUALS", setKind(s, "TOK_NOT"))
    [] c = "=" -> m1(s, "=", "TOK_EQUALS", setKind(s, "TOK_ASSIGN"))
    [] c = "<" ->
         m1(s, "=", "TOK_LE",
            IF matchChar(s, "<")
            THEN m1(advance(s), "=", "TOK_ASSIGN_SHL", setKind(advance(s), "TOK_SHL"))
            ELSE setKind(s, "TOK_LT"))
    [] c = ">" ->
         m1(s, "=", "TOK_GE",
            IF matchChar(s, ">")
            THEN IF matchChar(advance(s), ">")
                 THEN m1(advance(advance(s)), "=", "TOK_ASSIGN_USHR",
                         setKind(advance(advance(s)), "TOK_USHR"))
                 ELSE setKind(advance(s), "TOK_SHR")
            ELSE setKind(s, "TOK_GT"))

Punctuators == {";","{","}","(",")","[","]","~","?",":",",",".","/","*","+","&",
                "|","^","%","-","!","=","<",">"}

scan(s) ==
  IF s.hung THEN s ELSE
  bind(consumeWhitespace(s), LAMBDA w :
  LET c == w.c IN
     IF w.hung THEN w
     ELSE IF c = "#" /\ ~w.lexed_tokens_on_line
     THEN setKind(enterPreprocessorDirective(w), "TOK_NONE")
     ELSE bind(initTok(w), LAMBDA t :
       CASE c = NUL ->
              IF t.lexing_for_directive THEN setKind(t, "TOK_EOL")
              ELSE bind(handleEndOfFile(t), LAMBDA h :
                   IF h.ret THEN setKind(h, "TOK_NONE") ELSE setKind(h, "TOK_EOF"))
         [] c = CR \/ c = LF ->
              setKind(assert(t, t.lexing_for_directive, "scan"), "TOK_EOL")
         [] c \in Punctuators -> punctuator(t, c)
         [] c = SQ -> charLiteral(t)
         [] c = DQ -> stringLiteral(t)
         [] IsDigit(c) -> handleNumber(t, c)
         [] OTHER ->
              IF IsIdentStart(c) THEN handleIdentifier(t, c)
              ELSE setKind(IF ~t.lexing_for_directive
                           THEN cc_report(t, t.tok.start, "unexpected_char")
                           ELSE t, "TOK_UNKNOWN")))

setEnd(s) == [s EXCEPT !.tok.end = s.pos, !.tok.endLine = s.line_number]

\* do { tok->kind = scan(tok); } while (tok->kind == TOK_COMMENT);
directive_next(s) ==
  bind(assert(s, s.lexing_for_directive, "directive_next"), LAMBDA a :
  bind(scan(a), LAMBDA t :
     IF t.hung THEN t
     ELSE IF t.kind = "TOK_COMMENT" THEN directive_next(t)
     ELSE setEnd(t)))

chewLoop(s, warnOnNonSpace, warned) ==
  bind(directive_next(s), LAMBDA d :
  IF d.hung THEN d
  ELSE IF d.kind = "TOK_EOL" THEN d
  ELSE IF d.kind = "TOK_COMMENT" THEN chewLoop(d, warnOnNonSpace, warned)
  ELSE IF warnOnNonSpace /\ ~warned
       THEN chewLoop(cc_report(d, d.tok.start, "pp_extra_characters"), warnOnNonSpace, TRUE)
       ELSE IF Ctl(d) = Ctl(s) THEN hang(d, "chewLineAfterDirective")
            ELSE chewLoop(d, warnOnNonSpace, warned))

chewLineAfterDirective(s, warnOnNonSpace) ==
  bind(assert(s, s.lexing_for_directive, "chewLineAfterDirective"), LAMBDA a :
  bind(chewLoop([log(a, "chew", "") EXCEPT !.suppress_errors = TRUE],
                    warnOnNonSpace, FALSE), LAMBDA r :
     IF r.hung THEN r
     ELSE log([r EXCEPT !.suppress_errors = s.suppress_errors], "chew_done", "")))

\* What a macro's replacement list keeps of a token.
listToken(s) == [kind |-> s.kind, val |-> s.tok.val, atom |-> s.tok.atom]

\* for (;;) { while (directive_next(&tok) == TOK_COMMENT) continue;
\*            if (tok.kind == TOK_EOL) break; tokens.append(tok); }
macroTokensLoop(s, toks) ==
  bind(directive_next(s), LAMBDA d :
  IF d.hung THEN d
  ELSE IF d.kind = "TOK_COMMENT" THEN macroTokensLoop(d, toks)
  ELSE IF d.kind = "TOK_EOL" THEN [d EXCEPT !.list = toks]
  ELSE IF Ctl(d) = Ctl(s) THEN hang(d, "getMacroTokens")
  ELSE macroTokensLoop(d, Append(toks, listToken(d))))

\* a getMacroTokens that leaves macro expansion disabled when it returns
getMacroTokens_leavesDisabled(s) ==
  macroTokensLoop([s EXCEPT !.macro_expansion = FALSE], <<>>)

getMacroTokens(s) ==
  bind(macroTokensLoop([s EXCEPT !.macro_expansion = FALSE], <<>>), LAMBDA r :
  IF r.hung THEN r ELSE [r EXCEPT !.macro_expansion = s.macro_expansion])

\* pp_.eval(&val) (section 6): reads the tokens of the rest of the line,
\* those of an expanded macro included, until EOL.  The expressions of the
\* model are single integer literals; ret tells whether one was read.
evalLoop(s, toks) ==
  IF s.macroq # <<>>
  THEN evalLoop([s EXCEPT !.macroq = Tail(@)], Append(toks, Head(s.macroq)))
  ELSE bind(directive_next(s), LAMBDA d :
       IF d.hung THEN d
       ELSE IF d.kind = "TOK_EOL" THEN [d EXCEPT !.list = toks]
       ELSE IF d.kind = "TOK_NONE" THEN evalLoop(d, toks)
       ELSE IF Ctl(d) = Ctl(s) THEN hang(d, "eval")
       ELSE evalLoop(d, Append(toks, listToken(d))))

eval(s) ==
  bind(evalLoop(s, <<>>), LAMBDA r :
  IF r.hung THEN r
  ELSE IF Len(r.list) = 1 /\ r.list[1].kind = "TOK_INTEGER_LITERAL"
       THEN [r EXCEPT !.ret = TRUE, !.val = r.list[1].val]
       ELSE [r EXCEPT !.ret = FALSE, !.val = 0])

ret(s, b) == [s EXCEPT !.ret = b]

atomIs(s, str) == s.tok.atom = str

\* while (true) { if (IsLineTerminator(peekChar())) {...return false;}
\*                char c = readChar(); if (c == match) break; literal_.append(c); }
RECURSIVE includeLoop(_, _)
includeLoop(s, match) ==
  IF IsLineTerminator(peekChar(s))
  THEN ret(report(s, lastpos(s), "bad_include_syntax"), FALSE)
  ELSE bind(readChar(s), LAMBDA r :
       IF r.c = match THEN ret(r, TRUE)
       ELSE includeLoop([r EXCEPT !.literal = Append(@, r.c)], match))

handleInclude(s, directive, begin) ==
  bind(firstNonSpaceChar(s), LAMBDA f :
  IF f.c # DQ /\ f.c # "<"
  THEN ret(report(f, lastpos(f), "bad_include_syntax"), FALSE)
  ELSE LET match == IF f.c = DQ THEN DQ ELSE ">" IN
       bind(includeLoop([f EXCEPT !.literal = <<>>], match), LAMBDA l :
          IF ~l.ret THEN l
          ELSE LET where == IF match = DQ THEN "path" ELSE "nullptr" IN
               bind(chewLineAfterDirective(l, TRUE), LAMBDA w :
                  IF w.hung THEN w
                  ELSE ret(enterFile(w, directive, begin, w.literal, where), FALSE))))

handlePragma(s) ==
  bind(directive_next(s), LAMBDA t :
  IF t.hung THEN t
  ELSE IF t.kind # "TOK_NAME"
  THEN ret(cc_report(t, t.tok.start, "pragma_must_have_name"), FALSE)
  ELSE IF atomIs(t, <<"d","e","p","r","e","c","a","t","e","d">>)
  THEN bind(readUntilEnd(t), LAMBDA u :
       ret([u EXCEPT !.deprecation = SubSeq(buf, u.rangeb + 1, u.rangee)], TRUE))
  ELSE IF atomIs(t, <<"n","e","w","d","e","c","l","s">>)
  THEN bind(directive_next([t EXCEPT !.macro_expansion = FALSE]), LAMBDA n :
       bind(IF n.kind # "TOK_NAME"
                THEN ret(cc_report(n, n.tok.start, "bad_pragma_newdecls"), FALSE)
                ELSE IF atomIs(n, <<"r","e","q","u","i","r","e","d">>)
                THEN ret([n EXCEPT !.options.RequireNewdecls = TRUE], TRUE)
                ELSE IF atomIs(n, <<"o","p","t","i","o","n","a","l">>)
                THEN ret([n EXCEPT !.options.RequireNewdecls = FALSE], TRUE)
                ELSE ret(cc_report(n, n.tok.start, "bad_pragma_newdecls"), FALSE), LAMBDA r :
          IF n.hung THEN n ELSE [r EXCEPT !.macro_expansion = t.macro_expansion]))
  ELSE IF atomIs(t, <<"s","e","m","i","c","o","l","o","n">>)
  THEN eval(t)
  ELSE IF atomIs(t, <<"d","y","n","a","m","i","c">>)
  THEN bind(eval(t), LAMBDA e :
       IF e.hung \/ ~e.ret THEN e
       ELSE ret([e EXCEPT !.dynamic = e.val], TRUE))
  ELSE ret(cc_report(t, t.tok.start, "unknown_pragma"), FALSE))

handleDefine(s) ==
  bind(directive_next(s), LAMBDA t :
  IF t.hung THEN t
  ELSE IF t.kind # "TOK_NAME"
  THEN ret(cc_report(t, t.tok.start, "bad_directive_token"), FALSE)
  ELSE IF peekChar(t) = "("
  THEN ret(report(t, t.pos, "macro_functions_unsupported"), FALSE)
  ELSE bind(getMacroTokens(t), LAMBDA g :
       IF g.hung THEN g
       ELSE ret(defineMacro(g, t.tok.atom, t.tok.start, g.list), FALSE)))

handleUndef(s) ==
  bind(directive_next([s EXCEPT !.macro_expansion = FALSE]), LAMBDA t :
  bind(IF t.kind # "TOK_NAME"
           THEN ret(cc_report(t, t.tok.start, "bad_directive_token"), FALSE)
           ELSE removeMacro(t, t.tok.start, t.tok.atom), LAMBDA r :
     IF t.hung THEN t ELSE [r EXCEPT !.macro_expansion = s.macro_expansion]))

handleIf(s, begin) ==
  bind(eval(s), LAMBDA e :
  IF e.hung THEN e
  ELSE ret([e EXCEPT !.ifstack =
              Append(@, IfContext(begin, IF e.val # 0 THEN "Active" ELSE "Ignoring"))],
           ~e.ret))

\* a handler that lets #else keep an Active context Active
handleElse_keepsActive(s, begin) ==
  IF ~hasIf(s) THEN ret(report(s, begin, "else_without_if"), FALSE)
  ELSE ret([s EXCEPT !.ifstack[Len(s.ifstack)] = [@ EXCEPT !.elseloc = begin]], TRUE)

handleElse(s, begin) ==
  IF ~hasIf(s) THEN ret(report(s, begin, "else_without_if"), FALSE)
  ELSE IF isSet(currentIf(s).elseloc)
  THEN ret(report(s, begin, "else_declared_twice"), FALSE)
  ELSE ret([s EXCEPT !.ifstack[Len(s.ifstack)] =
              [@ EXCEPT !.elseloc = begin,
                        !.state = IF @ = "Ignoring" THEN "Active" ELSE "Inactive"]],
           TRUE)

\* a handler that accepts #endif without closing the context
handleEndif_noPop(s, begin) ==
  IF ~hasIf(s) THEN ret(report(s, begin, "endif_without_if"), FALSE)
  ELSE ret(s, TRUE)

handleEndif(s, begin) ==
  IF ~hasIf(s) THEN ret(report(s, begin, "endif_without_if"), FALSE)
  ELSE ret([s EXCEPT !.ifstack = pop(@)], TRUE)

handleEndinput(s) == ret([s EXCEPT !.pos = end_, !.ifstack = <<>>], FALSE)

\* Returns (in ret) whether the user should be warned of trailing characters.
handlePreprocessorDirective(s) ==
  LET begin == lastpos(s) IN
  bind(maybeKeyword(s, "#"), LAMBDA k :
  LET directive == k.kind IN
  bind(log(k, "directive", directive), LAMBDA d :
  bind(CASE directive = "TOK_M_DEFINE" -> handleDefine(d)
             [] directive = "TOK_M_IF" -> handleIf(d, begin)
             [] directive = "TOK_M_ELSE" -> handleElse(d, begin)
             [] directive = "TOK_M_ENDIF" -> handleEndif(d, begin)
             [] directive = "TOK_M_UNDEF" -> handleUndef(d)
             [] directive = "TOK_M_ENDINPUT" -> handleEndinput(d)
             [] directive \in {"TOK_M_INCLUDE", "TOK_M_TRYINCLUDE"} ->
                  handleInclude(d, directive, begin)
             [] directive = "TOK_M_PRAGMA" -> handlePragma(d)
             [] OTHER -> ret(report(d, begin, "unknown_directive"), FALSE), LAMBDA r :
     IF r.hung THEN r ELSE log(r, "directive_done", directive))))

enterPreprocessorDirective(s) ==
  bind([log(s, "enterPreprocessorDirective", "") EXCEPT !.lexed_tokens_on_line = TRUE], LAMBDA a :
  bind(handlePreprocessorDirective([a EXCEPT !.lexing_for_directive = TRUE]), LAMBDA h :
  bind(IF h.hung THEN h ELSE chewLineAfterDirective(h, h.ret), LAMBDA w :
  LET x == [w EXCEPT !.lexing_for_directive = s.lexing_for_directive] IN
     IF w.hung THEN w
     ELSE IF hasIf(x) /\ currentIf(x).state # "Active"
     THEN bind(handleIfContext(x), LAMBDA i :
          IF i.hung THEN i
          ELSE IF peekChar(i) = NUL THEN log(i, "enterPreprocessorDirective_done", "")
          ELSE log(assert(i, topActive(i), "enterPreprocessorDirective"),
                   "enterPreprocessorDirective_done", ""))
     ELSE log(x, "enterPreprocessorDirective_done", ""))))

\* while (!IsLineTerminator(c)) c = readChar();
RECURSIVE restOfLine(_)
restOfLine(s) == IF IsLineTerminator(s.c) THEN s ELSE restOfLine(readChar(s))

ifContextLoop(s) ==
  bind(firstNonSpaceChar(s), LAMBDA f :
  bind(IF f.c = "#" THEN handleDirectiveWhileInactive(f) ELSE f, LAMBDA d :
     IF d.hung THEN d
     ELSE IF f.c = "#" /\ topActive(d) THEN d
     ELSE bind(restOfLine([d EXCEPT !.c = f.c]), LAMBDA r :
          IF r.c = NUL THEN r
          ELSE bind(advanceLine(r, r.c), LAMBDA a :
               \* a CR that is the last byte is read again and again
               IF a.pos <= s.pos THEN hang(a, "handleIfContext")
               ELSE ifContextLoop(a)))))

handleIfContext(s) ==
  bind(log(s, "handleIfContext", ""), LAMBDA e :
  bind(assert(e, IsLineTerminator(peekChar(e)), "handleIfContext"), LAMBDA a :
     IF peekChar(a) = NUL THEN log(a, "handleIfContext_done", "")
     ELSE bind(ifContextLoop(advanceLine(a, peekChar(a))), LAMBDA r :
          IF r.hung THEN r ELSE log(r, "handleIfContext_done", ""))))

\* a skip engine whose #else does not record where it stands
inactiveElse_noLocation(s, begin) ==
  LET ix == currentIf(s) IN
  IF ix.state = "Dead" THEN s
  ELSE bind(IF isSet(ix.elseloc) THEN report(s, begin, "else_declared_twice") ELSE s, LAMBDA r :
       LET u == [r EXCEPT !.ifstack[Len(s.ifstack)] =
                   [@ EXCEPT !.state = IF @ = "Ignoring" THEN "Active" ELSE "Inactive"]] IN
          chewLineAfterDirective(u, TRUE))

inactiveElse(s, begin) ==
  LET ix == currentIf(s) IN
  IF ix.state = "Dead" THEN s
  ELSE bind(IF isSet(ix.elseloc) THEN report(s, begin, "else_declared_twice") ELSE s, LAMBDA r :
       LET u == [r EXCEPT !.ifstack[Len(s.ifstack)] =
                   [@ EXCEPT !.elseloc = begin,
                             !.state = IF @ = "Ignoring" THEN "Active" ELSE "Inactive"]] IN
          chewLineAfterDirective(u, TRUE))

handleDirectiveWhileInactive(s) ==
  LET a == [s EXCEPT !.lexing_for_directive = TRUE] IN
  LET begin == lastpos(a) IN
  bind(maybeKeyword(a, "#"), LAMBDA k :
  LET directive == k.kind IN
  bind(log(k, "inactive", directive), LAMBDA d :
  bind(CASE directive = "TOK_M_IF" ->
                  [d EXCEPT !.ifstack = Append(@, IfContext(begin, "Dead"))]
             [] directive = "TOK_M_ELSE" -> inactiveElse(d, begin)
             [] directive = "TOK_M_ENDIF" ->
                  chewLineAfterDirective([d EXCEPT !.ifstack = pop(@)], TRUE)
             [] OTHER -> d, LAMBDA r :
     IF r.hung THEN r
     ELSE log([r EXCEPT !.lexing_for_directive = s.lexing_for_directive],
              "inactive_done", directive))))

---------------------------------------------------------------------------
(* Comment attribution and next                                            *)

RECURSIVE skipComments(_)
skipComments(s) ==
  IF s.hung \/ s.kind # "TOK_COMMENT" THEN s ELSE skipComments(scan(s))

\* while ((tok->kind = scan(tok)) != TOK_COMMENT) {
\*   if (tok->start.line > end.line + 1) break;  end = tok->end; }
RECURSIVE tailLoop(_, _)
tailLoop(s, e) ==
  bind(scan(s), LAMBDA t :
  IF t.hung THEN t
  ELSE IF t.kind = "TOK_COMMENT" THEN [t EXCEPT !.range = e]
  ELSE IF t.tok.startLine > e.line + 1 THEN [t EXCEPT !.range = e]
  ELSE IF Ctl(t) = Ctl(s) /\ t.tok.end = e.loc /\ t.tok.endLine = e.line
       THEN hang(t, "processTailCommentBlock")
       ELSE tailLoop(t, [loc |-> t.tok.end, line |-> t.tok.endLine]))

processTailCommentBlock(s) ==
  LET start == s.tok.start IN
  bind(tailLoop(s, [loc |-> s.tok.end, line |-> s.tok.endLine]), LAMBDA r :
     IF r.hung THEN r ELSE addComment(r, "Tail", start, r.range.loc))

NoPos == [loc |-> NoLoc, line |-> 0]

\* The loop of processFrontCommentBlock; range is the end to commit, and
\* ret tells whether the block is discarded by the early return.
RECURSIVE frontLoop(_, _, _, _)
frontLoop(s, start, e, last_end) ==
  bind(scan(s), LAMBDA t :
  IF t.hung THEN t
  ELSE IF t.kind # "TOK_COMMENT"
  THEN IF start.line = t.tok.startLine THEN [t EXCEPT !.ret = FALSE, !.range = e]
       ELSE IF t.tok.startLine # last_end.line
       THEN [t EXCEPT !.ret = TRUE, !.range = last_end]
       ELSE [t EXCEPT !.ret = TRUE, !.range = e]
  ELSE IF t.tok.startLine > last_end.line + 1
  THEN [t EXCEPT !.ret = TRUE, !.range = last_end]
  ELSE frontLoop(t, start, last_end, [loc |-> t.tok.end, line |-> t.tok.endLine]))

processFrontCommentBlock(s) ==
  LET start == [loc |-> s.tok.start, line |-> s.tok.startLine] IN
  bind(frontLoop(s, start, NoPos, NoPos), LAMBDA r :
     IF r.hung \/ ~r.ret \/ ~isSet(r.range.loc) THEN r
     ELSE addComment(r, "Front", start.loc, r.range.loc))

RECURSIVE frontBlocks(_)
frontBlocks(s) ==
  IF s.hung \/ s.kind # "TOK_COMMENT" THEN s
  ELSE frontBlocks(processFrontCommentBlock(s))

handleComments(s) ==
  IF ~s.options.TraceComments \/ s.lexing_for_directive
  THEN skipComments(s)
  ELSE bind(IF s.lexed_tokens_on_line THEN processTailCommentBlock(s) ELSE s, LAMBDA t :
       IF t.hung THEN t
       ELSE frontBlocks(assert(t, ~t.lexed_tokens_on_line, "handleComments")))

next(s) ==
  bind(scan(log(s, "next", "")), LAMBDA t :
  bind(IF t.hung \/ t.kind # "TOK_COMMENT" THEN t
           ELSE bind(handleComments(t), LAMBDA c :
                IF c.hung THEN c ELSE assert(c, c.kind # "TOK_COMMENT", "next")), LAMBDA h :
     IF h.hung THEN h
     ELSE bind(setEnd([h EXCEPT !.lexed_tokens_on_line = (h.kind # "TOK_NONE")]), LAMBDA r :
             log(r, "next_done", r.kind))))

---------------------------------------------------------------------------
(* The parser's side: source buffers and the calls to next                 *)

MaxChunks == 2
MaxTokens == 8

in_if0 == <<"#","i","f"," ","0",LF>>
in_if1 == <<"#","i","f"," ","1",LF>>
in_else == <<"#","e","l","s","e",LF>>
in_endif == <<"#","e","n","d","i","f",LF>>
in_ok == <<"o","k",LF>>
in_endinput == <<"#","e","n","d","i","n","p","u","t",LF>>
in_else_endif == <<"#","e","l","s","e"," ","#","e","n","d","i","f",LF>>
in_endif_comment_else == <<"#","e","n","d","i","f"," ","/","*",LF,"*","/"," ","#","e","l","s","e",LF>>
in_ok_eof == <<"o","k">>
in_cr == <<CR>>
in_string == <<DQ,"a",LF>>
in_define == <<"#","d","e","f","i","n","e"," ","x"," ","1",LF>>
in_x == <<"x",LF>>
in_ifx == <<"#","i","f"," ","x",LF>>
in_endif_eof == <<"#","e","n","d","i","f">>
in_crlf == <<CR,LF>>

Chunks == {in_if0, in_if1, in_else, in_endif, in_ok, in_endinput,
           in_else_endif, in_endif_comment_else, in_ok_eof, in_cr, in_string, in_define,
           in_x, in_ifx, in_endif_eof, in_crlf}

in_boundary4 == <<"#","i","f"," ","0",LF,"J","U","N","K",LF,"#","e","l","s","e",LF,"o","k",LF,"#","e","n","d","i","f",LF>>
in_boundary5 == <<"#","d","e","f","i","n","e"," ","X"," ","1",LF,"#","i","f"," ","X",LF,"#","e","n","d","i","f",LF>>
in_nested == <<"#","i","f"," ","0",LF,"#","i","f"," ","1",LF,"#","e","l","s","e",LF,"#","e","n","d","i","f",LF,"#","e","l","s","e",LF,"o","k",LF,"#","e","n","d","i","f",LF>>
in_else_after_flip == <<"#","i","f"," ","0",LF,"#","e","l","s","e",LF,"#","e","l","s","e",LF,"o","k",LF,"#","e","n","d","i","f",LF>>
in_else_twice == <<"#","i","f"," ","1",LF,"#","e","l","s","e",LF,"#","e","l","s","e",LF,"#","e","n","d","i","f",LF>>
in_else_twice_quiet == <<"#","i","f"," ","1",LF,"#","p","r","a","g","m","a"," ","x"," ","/","*",LF,"*","/"," ","#","e","l","s","e",LF,"#","e","l","s","e",LF,"#","e","n","d","i","f",LF>>
in_endinput_skipped == <<"#","i","f"," ","0",LF,"#","i","f"," ","1",LF,"#","e","n","d","i","f"," ","#","e","n","d","i","n","p","u","t",LF,"#","e","n","d","i","f",LF,"o","k",LF>>
in_skip_eof == <<"#","i","f"," ","0",LF,"#","e","n","d","i","f">>

in_endif_if == <<"#","i","f"," ","0",LF,"#","i","f"," ","1",LF,"#","e","n","d","i","f"," ","#","i","f"," ","1",LF,"o","k",LF,"#","e","n","d","i","f",LF,"#","e","n","d","i","f",LF>>
in_else_if == <<"#","i","f"," ","1",LF,"#","e","l","s","e",LF,"#","e","l","s","e"," ","#","i","f"," ","1",LF,"o","k",LF,"#","e","n","d","i","f",LF,"#","e","n","d","i","f",LF>>
in_endif_else == <<"#","i","f"," ","0",LF,"#","i","f"," ","1",LF,"#","e","n","d","i","f"," ","#","e","l","s","e",LF,"o","k",LF,"#","e","n","d","i","f",LF>>

Scenarios == {in_boundary4, in_boundary5, in_nested, in_else_after_flip,
              in_else_twice, in_else_twice_quiet, in_skip_eof, in_endinput_skipped,
              in_endif_if, in_else_if, in_endif_else}

RECURSIVE Flatten(_)
Flatten(f) == IF Len(f) = 0 THEN <<>> ELSE Head(f) \o Flatten(Tail(f))

\* the concatenations of exactly n chunks
Concats(n) == {Flatten(f) : f \in [1..n -> Chunks]}

Inputs == UNION {Concats(n) : n \in 0..MaxChunks} \cup Scenarios

\* The lexer as the record the operators above thread through a call.
Lexer ==
  [pos |-> pos_, line_number |-> line_number_,
   lexing_for_directive |-> lexing_for_directive_,
   suppress_errors |-> suppress_errors_,
   lexed_tokens_on_line |-> lexed_tokens_on_line_,
   ifstack |-> ifstack_, literal |-> literal_, options |-> options_,
   macro_expansion |-> macro_expansion, macros |-> macros, macroq |-> macroq,
   includes |-> includes, diags |-> diags, comments |-> comments,
   asserts |-> asserts, deprecation |-> deprecation, dynamic |-> dynamic,
   hung |-> FALSE, events |-> <<>>,
   \* registers: locals and return values
   c |-> NUL, kind |-> "TOK_NONE", tok |-> FreshToken,
   esc |-> [c |-> NUL, code |-> 0], ret |-> FALSE, val |-> 0, list |-> <<>>,
   range |-> NoPos, rangeb |-> 0, rangee |-> 0]

\* The lexer as constructed over a buffer, before the first call.
Construct ==
  /\ options_ \in [TraceComments : BOOLEAN, RequireNewdecls : {FALSE}]
  /\ pos_ = 0
  /\ line_number_ = 1
  /\ lexing_for_directive_ = FALSE
  /\ suppress_errors_ = FALSE
  /\ lexed_tokens_on_line_ = FALSE
  /\ ifstack_ = <<>>
  /\ literal_ = <<>>
  /\ macro_expansion = TRUE
  /\ macroq = <<>>
  /\ includes = <<>>
  /\ diags = <<>>
  /\ comments = <<>>
  /\ hung = FALSE
  /\ events = <<>>
  /\ tokens = <<>>
  /\ last = FreshToken
  /\ done = FALSE
  /\ asserts = <<>>
  /\ deprecation = <<>>
  /\ dynamic = 0
  /\ directives = <<>>
  /\ char_is_signed \in BOOLEAN

Init ==
  /\ buf \in Inputs
  /\ macros = <<>>
  /\ Construct

\* The directives a call dispatched, to the full engine ("directive") or to
\* the restricted handler of a skipped region ("inactive"), in order.
dispatched(evs) ==
  LET isDispatch(e) == e.op \in {"directive", "inactive"}
      d == SelectSeq(evs, isDispatch)
  IN [i \in 1..Len(d) |->
        [op |-> d[i].op, kind |-> d[i].kind,
         active |-> (d[i].stack = <<>> \/ d[i].stack[Len(d[i].stack)].state = "Active")]]

\* The parser calls Lexer::next(&tok).
CallNext ==
  /\ ~done /\ ~hung /\ macroq = <<>> /\ Len(tokens) < MaxTokens
  /\ \E r \in {next(Lexer)} :
     /\ pos_' = r.pos
     /\ line_number_' = r.line_number
     /\ lexing_for_directive_' = r.lexing_for_directive
     /\ suppress_errors_' = r.suppress_errors
     /\ lexed_tokens_on_line_' = r.lexed_tokens_on_line
     /\ ifstack_' = r.ifstack
     /\ literal_' = r.literal
     /\ options_' = r.options
     /\ macro_expansion' = r.macro_expansion
     /\ macros' = r.macros
     /\ macroq' = r.macroq
     /\ includes' = r.includes
     /\ diags' = r.diags
     /\ comments' = r.comments
     /\ asserts' = r.asserts
     /\ deprecation' = r.deprecation
     /\ dynamic' = r.dynamic
     /\ hung' = r.hung
     /\ events' = r.events
     /\ directives' = directives \o dispatched(r.events)
     /\ last' = IF r.hung THEN last ELSE r.tok
     /\ tokens' = IF r.hung THEN tokens
                  ELSE Append(tokens, [kind |-> r.kind, val |-> r.tok.val,
                                       atom |-> r.tok.atom])
     /\ done' = (~r.hung /\ r.kind = "TOK_EOF")
  /\ UNCHANGED <<buf, char_is_signed>>

\* The preprocessor hands the parser the next token of the macro it entered.
MacroNext ==
  /\ ~done /\ ~hung /\ macroq # <<>> /\ Len(tokens) < MaxTokens
  /\ tokens' = Append(tokens, Head(macroq))
  /\ macroq' = Tail(macroq)
  /\ UNCHANGED <<buf, pos_, line_number_, lexing_for_directive_, suppress_errors_,
                 lexed_tokens_on_line_, ifstack_, literal_, options_,
                 macro_expansion, macros, includes, diags, comments, hung,
                 events, last, done, asserts, deprecation, dynamic, directives,
                 char_is_signed>>

Next == CallNext \/ MacroNext

Spec == Init /\ [][Next]_vars

---------------------------------------------------------------------------
(* Literal inputs: the text of one token and what follows it, and          *)
(* directive lines with operands, for the scanners of numbers, escapes,    *)
(* identifiers and of #define, #undef and #include                         *)

MaxSample == 12

DigitChar(d) == CHOOSE c \in Digits : DigitVal(c) = d

HexChar(d) ==
  IF d < 10 THEN DigitChar(d)
  ELSE CASE d = 10 -> "A" [] d = 11 -> "B" [] d = 12 -> "C"
         [] d = 13 -> "D" [] d = 14 -> "E" [] d = 15 -> "F"

\* the decimal and the hexadecimal numeral of n
RECURSIVE Decimal(_)
Decimal(n) ==
  IF n < 10 THEN <<DigitChar(n)>> ELSE Append(Decimal(n \div 10), DigitChar(n % 10))

RECURSIVE Hexadecimal(_)
Hexadecimal(n) ==
  IF n < 16 THEN <<HexChar(n)>> ELSE Append(Hexadecimal(n \div 16), HexChar(n % 16))

\* small values, and the values around the top bit and the top of the word
IntSamples ==
  (0..MaxSample) \cup {2^(UintBits - 1) - 1, 2^(UintBits - 1), UintMax,
                       UintMax + 1, 10 * UintMax}

HexSamples == (0..MaxSample) \cup {16, 26, 255, 256, UintMax}

EscSamples == {0, 4, 65, 127, 128, 200, 255, 256, 300, 1000}

lit_leading_zeros == <<"0","0","7">>
lit_hex_empty == <<"0","x">>
lit_hex_lower == <<"0","X","f","f">>
lit_float == <<"1",".","5">>
lit_float_exp == <<"1",".","5","e","3">>
lit_float_negexp == <<"1","2",".","2","5","e","-","2">>
lit_float_nodigit == <<"1",".","x">>
lit_float_dot == <<"1",".">>
lit_float_e == <<"1",".","5","e">>
lit_float_eminus == <<"1",".","5","e","-">>
lit_float_ex == <<"1",".","5","e","x">>
lit_char == <<SQ,"a",SQ>>
lit_char_newline == <<SQ,BSL,"n",SQ>>
lit_char_unknown == <<SQ,BSL,"q",SQ>>
lit_char_empty == <<SQ,SQ>>
lit_char_hex_nodigit == <<SQ,BSL,"x","g",SQ>>
lit_char_dec_letter == <<SQ,BSL,"6","5","a",SQ>>
lit_string == <<DQ,"a",BSL,"6","5",";","b",DQ>>
lit_string_open == <<DQ,"a","b">>
lit_name == <<"o","k">>
lit_label == <<"o","k",":">>
lit_keyword == <<"i","f">>
lit_keyword_colon == <<"d","o",":">>
lit_macro == <<"m">>
lit_macro_colon == <<"m",":">>
end_more == <<" ","+"," ","2",LF>>

IntLiterals == {Decimal(n) : n \in IntSamples} \cup {lit_leading_zeros}

HexLiterals ==
  {<<"0","x">> \o Hexadecimal(n) : n \in HexSamples} \cup {lit_hex_empty, lit_hex_lower}

FloatLiterals ==
  {lit_float, lit_float_exp, lit_float_negexp, lit_float_nodigit, lit_float_dot,
   lit_float_e, lit_float_eminus, lit_float_ex}

\* '\x..' and '\ddd', with and without the ';' that may end the escape
EscLiterals ==
  {<<SQ, BSL, "x">> \o Hexadecimal(n) \o semi \o <<SQ>> :
     n \in EscSamples, semi \in {<<>>, <<";">>}}
  \cup {<<SQ, BSL>> \o Decimal(n) \o semi \o <<SQ>> :
          n \in EscSamples, semi \in {<<>>, <<";">>}}
  \cup {lit_char, lit_char_newline, lit_char_unknown, lit_char_empty,
        lit_char_hex_nodigit, lit_char_dec_letter, lit_string, lit_string_open}

NameLiterals ==
  {lit_name, lit_label, lit_keyword, lit_keyword_colon, lit_macro, lit_macro_colon}

Literals == IntLiterals \cup HexLiterals \cup FloatLiterals \cup EscLiterals \cup NameLiterals

\* what follows the literal: a line end, the end of the buffer, more tokens
Endings == {<<LF>>, <<>>, end_more}

in_chew_string == <<"#","i","f"," ","1",LF,"#","e","n","d","i","f"," ",DQ,"a","b","c",LF,"o","k",LF>>
in_chew_comment == <<"#","i","f"," ","1",LF,"#","e","n","d","i","f"," ","/","*"," ","a","b","c">>
in_chew_escape == <<"#","i","f"," ","1",LF,"#","e","n","d","i","f"," ",SQ,BSL,"q",SQ,LF,"o","k",LF>>
in_chew_float == <<"#","i","f"," ","1",LF,"#","e","n","d","i","f"," ","1",".","x",LF,"o","k",LF>>
in_chew_char == <<"#","i","f"," ","1",LF,"#","e","n","d","i","f"," ",SQ,SQ,LF,"o","k",LF>>
in_chew_overflow == <<"#","i","f"," ","1",LF,"#","e","n","d","i","f"," ","9","9","9","9","9","9","9","9",LF,"o","k",LF>>
in_chew_unexpected == <<"#","i","f"," ","1",LF,"#","e","n","d","i","f"," ","$",LF,"o","k",LF>>
in_chew_clean == <<"#","i","f"," ","1",LF,"#","e","n","d","i","f"," ","o","k"," ","1",".","5"," ",DQ,"s",DQ,LF,"o","k",LF>>
in_define_twice == <<"#","d","e","f","i","n","e"," ","x"," ","1",LF,"#","d","e","f","i","n","e"," ","x"," ","2",LF,"x",LF>>
in_define_undef == <<"#","d","e","f","i","n","e"," ","x"," ","1",LF,"#","u","n","d","e","f"," ","x",LF,"x",LF>>
in_define_body == <<"#","d","e","f","i","n","e"," ","x"," ","1",LF,"#","d","e","f","i","n","e"," ","y"," ","x",LF,"y",LF>>
in_define_number == <<"#","d","e","f","i","n","e"," ","1"," ","x",LF>>
in_undef_unknown == <<"#","u","n","d","e","f"," ","x",LF,"x",LF>>
in_include == <<"#","i","n","c","l","u","d","e"," ",DQ,"a",DQ,LF,"o","k",LF>>
in_include_angle == <<"#","i","n","c","l","u","d","e"," ","<","a",">",LF,"o","k",LF>>
in_include_name == <<"#","i","n","c","l","u","d","e"," ",DQ,"a",DQ," ","b",LF,"o","k",LF>>
in_include_string == <<"#","t","r","y","i","n","c","l","u","d","e"," ","<","a",">"," ",DQ,"b",DQ,LF,"o","k",LF>>
in_include_number == <<"#","i","n","c","l","u","d","e"," ",DQ,"a",".","i","n","c",DQ," ","1","2",LF,"o","k",LF>>
in_include_open == <<"#","i","n","c","l","u","d","e"," ",DQ,"a",LF,"o","k",LF>>
in_include_bare == <<"#","i","n","c","l","u","d","e"," ","a",LF,"o","k",LF>>
in_include_comment == <<"#","i","n","c","l","u","d","e"," ",DQ,"a",DQ," ","/","/"," ","b",LF,"o","k",LF>>
in_macro_hash == <<"m"," ","#","d","e","f","i","n","e"," ","x"," ","2",LF,"x",LF>>
in_name_hash == <<"o","k"," ","#","d","e","f","i","n","e"," ","x"," ","2",LF,"x",LF>>

DirectiveLines ==
  {in_chew_string, in_chew_comment, in_chew_escape, in_chew_float, in_chew_char,
   in_chew_overflow, in_chew_unexpected, in_chew_clean,
   in_define_twice, in_define_undef, in_define_body, in_define_number,
   in_undef_unknown,
   in_include, in_include_angle, in_include_name, in_include_string,
   in_include_number, in_include_open, in_include_bare, in_include_comment,
   in_macro_hash, in_name_hash}

LiteralInputs == {t \o e : t \in Literals, e \in Endings} \cup DirectiveLines

\* Macros the preprocessor may hold when the lexer is created: none, or m
\* (one token) and do (nothing), defined through its interface.
Predefined ==
  (<<"m">> :> <<[kind |-> "TOK_INTEGER_LITERAL", val |-> 1, atom |-> NoAtom]>>)
    @@ (<<"d","o">> :> <<>>)

LiteralInit ==
  /\ buf \in LiteralInputs
  /\ macros \in {<<>>, Predefined}
  /\ Construct

LiteralSpec == LiteralInit /\ [][Next]_vars

----------------------------------------------------------------------------
(* Commented inputs: words, comments and line ends in every order, for the *)
(* attribution of comments                                                 *)

MaxPieces == 4

pc_name == <<"a"," ">>
pc_macro == <<"m"," ">>
pc_line_comment == <<"/","/"," ","c",LF>>
pc_block_comment == <<"/","*"," ","c"," ","*","/"," ">>
pc_newline == <<LF>>
pc_space == <<" ">>

Pieces == {pc_name, pc_macro, pc_line_comment, pc_block_comment, pc_newline, pc_space}

\* the concatenations of at most MaxPieces pieces
CommentInputs == UNION {{Flatten(f) : f \in [1..n -> Pieces]} : n \in 0..MaxPieces}

CommentInit ==
  /\ buf \in CommentInputs
  /\ macros = Predefined
  /\ Construct

CommentSpec == CommentInit /\ [][Next]_vars

---------------------------------------------------------------------------
(* Properties                                                              *)

LastKind == IF tokens = <<>> THEN "TOK_NONE" ELSE tokens[Len(tokens)].kind

Concrete(k) == k \notin {"TOK_NONE", "TOK_EOF"}

stackActive(stack) == Len(stack) = 0 \/ stack[Len(stack)].state = "Active"

\* the events of the last call with a given op
EventsOf(op) == {i \in 1..Len(events) : events[i].op = op}

Count(op) == Cardinality(EventsOf(op))

\* the kinds the parser has received, without the NONEs that make it call again
RECURSIVE concreteKinds(_)
concreteKinds(toks) ==
  IF toks = <<>> THEN <<>>
  ELSE IF toks[1].kind = "TOK_NONE" THEN concreteKinds(Tail(toks))
  ELSE <<toks[1].kind>> \o concreteKinds(Tail(toks))

\* the skip engine is running: it was entered and has not returned
InSkipEngine == Count("handleIfContext") > Count("handleIfContext_done")

\* The event that ends what event i began: the first later event with op
\* done such that the begin and done events between the two pair up.
MatchDone(i, begin, dn) ==
  LET balanced(j) ==
        Cardinality({k \in (i+1)..(j-1) : events[k].op = begin})
          = Cardinality({k \in (i+1)..(j-1) : events[k].op = dn})
      cands == {j \in (i+1)..Len(events) : events[j].op = dn /\ balanced(j)}
  IN IF cands = {} THEN 0 ELSE CHOOSE j \in cands : \A k \in cands : j <= k

top(stack) == stack[Len(stack)]

reportedSince(n, id) == \E k \in (n+1)..Len(diags) : diags[k].id = id

(***************************************************************************)
(* C1.  Code in a skipped conditional region is never tokenized: a         *)
(* concrete token reaches the parser only with the if-stack empty or its   *)
(* top Active; the skip engine always terminates, and returns only at the  *)
(* end of the buffer or with the if-stack empty or its top Active; and     *)
(* "#if 0 / JUNK / #else / ok / #endif" yields the one NAME ok, then EOF,  *)
(* with no diagnostic.                                                     *)
(***************************************************************************)
C1_SkippedRegionNeverTokenized ==
  /\ Concrete(LastKind) => stackActive(ifstack_)
  /\ ~(hung /\ InSkipEngine)
  /\ \A i \in EventsOf("handleIfContext_done") :
        events[i].pos >= end_ \/ stackActive(events[i].stack)
  /\ (buf = in_boundary4 /\ done) =>
        /\ concreteKinds(tokens) = <<"TOK_NAME", "TOK_EOF">>
        /\ \E i \in 1..Len(tokens) : tokens[i].kind = "TOK_NAME" /\ tokens[i].atom = <<"o","k">>
        /\ diags = <<>>

(***************************************************************************)
(* C2.  Whenever #else is processed while the top if-context is Active,    *)
(* the top context becomes Inactive, however it became Active.             *)
(***************************************************************************)
ElseOnActive(i) ==
  /\ events[i].op = "directive" /\ events[i].kind = "TOK_M_ELSE"
  /\ events[i].stack # <<>> /\ top(events[i].stack).state = "Active"

C2_ElseOnActiveAlwaysInactive ==
  \A i \in 1..Len(events) : ElseOnActive(i) =>
     /\ i < Len(events) /\ events[i+1].op = "directive_done"
     /\ events[i+1].stack # <<>>
     /\ top(events[i+1].stack).state = "Inactive"

(***************************************************************************)
(* C2, as the code has it.  #else processed while the top if-context is    *)
(* Active and has no else location yet makes that context Inactive and     *)
(* records the location of the '#', and the lexer goes on to the skip      *)
(* engine or to a directive nested in the rest of the line.  When the      *)
(* context already has an else location (it became Active by the #else of  *)
(* a false #if), the second #else is rejected: else_declared_twice is      *)
(* reported unless errors are suppressed, and the if-stack is unchanged.   *)
(***************************************************************************)
C2_ElseOnActive ==
  \A i \in 1..Len(events) : ElseOnActive(i) =>
     /\ i < Len(events) /\ events[i+1].op = "directive_done"
     /\ LET b == events[i].stack
            a == events[i+1].stack
        IN IF isSet(top(b).elseloc)
           THEN /\ a = b
                /\ events[i].sup \/ reportedSince(events[i].nd, "else_declared_twice")
           ELSE /\ Len(a) = Len(b)
                /\ SubSeq(a, 1, Len(a) - 1) = SubSeq(b, 1, Len(b) - 1)
                /\ top(a).state = "Inactive" /\ top(a).first = top(b).first
                /\ isSet(top(a).elseloc) /\ buf[top(a).elseloc + 1] = "#"
                /\ hung \/ \E j \in (i+2)..Len(events) :
                              events[j].op \in {"handleIfContext", "enterPreprocessorDirective"}

\* #else closed the active branch of a true #if and the skip engine ran
C2_Witness ==
  \E i \in 1..Len(events) :
     /\ ElseOnActive(i) /\ ~isSet(top(events[i].stack).elseloc)
     /\ top(events[i+1].stack).state = "Inactive"
     /\ \E j \in (i+2)..Len(events) : events[j].op = "handleIfContext_done"

(***************************************************************************)
(* C3.  In a skipped region the restricted directive handler follows the   *)
(* transition table: #if pushes exactly one Dead context without reading   *)
(* its expression; #else leaves a Dead top alone, makes an Ignoring top    *)
(* Active, and on an Inactive top reports else_declared_twice and leaves   *)
(* it Inactive; #endif pops exactly one context; any other directive       *)
(* leaves the if-stack unchanged.                                          *)
(***************************************************************************)
C3_InactiveHandlerFollowsTable ==
  \A i \in EventsOf("inactive") :
     LET j == MatchDone(i, "inactive", "inactive_done")
         b == events[i].stack
         k == events[i].kind
     IN j # 0 =>
        LET a == events[j].stack
            sameBelow == /\ Len(a) = Len(b)
                         /\ SubSeq(a, 1, Len(a) - 1) = SubSeq(b, 1, Len(b) - 1)
        IN CASE k = "TOK_M_IF" ->
                  /\ Len(a) = Len(b) + 1 /\ SubSeq(a, 1, Len(b)) = b
                  /\ top(a).state = "Dead"
                  /\ events[j].pos = events[i].pos
             [] k = "TOK_M_ELSE" /\ top(b).state = "Dead" -> a = b
             [] k = "TOK_M_ELSE" /\ top(b).state = "Ignoring" ->
                  sameBelow /\ top(a).state = "Active"
             [] k = "TOK_M_ELSE" /\ top(b).state = "Inactive" ->
                  /\ sameBelow /\ top(a).state = "Inactive"
                  /\ reportedSince(events[i].nd, "else_declared_twice")
             [] k = "TOK_M_ENDIF" -> a = pop(b)
             [] OTHER -> a = b

(***************************************************************************)
(* C4.  The else location of an if-context is assigned at most once in     *)
(* the context's lifetime: once set it is never overwritten, in active     *)
(* mode or in skip mode.                                                   *)
(***************************************************************************)
C4_ElseLocSetOnce ==
  \A i \in 1..(Len(events) - 1) :
     LET b == events[i].stack
         a == events[i+1].stack
     IN \A k \in 1..Len(b) :
           (k <= Len(a) /\ a[k].first = b[k].first /\ isSet(b[k].elseloc))
              => a[k].elseloc = b[k].elseloc

\* The conditional directives of the text: the lines whose first character
\* after blanks is '#', followed by the word if, else or endif.
RECURSIVE wordAt(_)
wordAt(i) ==
  IF i > Len(buf) \/ ~IsIdentChar(buf[i]) THEN <<>> ELSE <<buf[i]>> \o wordAt(i + 1)

RECURSIVE textDirectives(_, _)
textDirectives(i, fresh) ==
  IF i > Len(buf) THEN <<>>
  ELSE IF buf[i] \in {LF, CR} THEN textDirectives(i + 1, TRUE)
  ELSE IF buf[i] \in {" ", TAB} THEN textDirectives(i + 1, fresh)
  ELSE IF buf[i] = "#" /\ fresh
  THEN LET w == wordAt(i + 1)
           k == CASE w = <<"i","f">> -> <<"TOK_M_IF">>
                  [] w = <<"e","l","s","e">> -> <<"TOK_M_ELSE">>
                  [] w = <<"e","n","d","i","f">> -> <<"TOK_M_ENDIF">>
                  [] OTHER -> <<>>
       IN k \o textDirectives(i + 1, FALSE)
  ELSE textDirectives(i + 1, FALSE)

\* open is the sequence of "an #else was seen" flags of the open #ifs
RECURSIVE wellFormed(_, _)
wellFormed(ds, open) ==
  IF ds = <<>> THEN open = <<>>
  ELSE CASE Head(ds) = "TOK_M_IF" -> wellFormed(Tail(ds), Append(open, FALSE))
         [] Head(ds) = "TOK_M_ELSE" ->
              /\ open # <<>> /\ ~open[Len(open)]
              /\ wellFormed(Tail(ds), [open EXCEPT ![Len(open)] = TRUE])
         [] Head(ds) = "TOK_M_ENDIF" ->
              open # <<>> /\ wellFormed(Tail(ds), SubSeq(open, 1, Len(open) - 1))

WellFormedText == wellFormed(textDirectives(1, TRUE), <<>>)

EndinputProcessed ==
  \E i \in 1..Len(directives) :
     directives[i].op = "directive" /\ directives[i].kind = "TOK_M_ENDINPUT"

\* The #ifs dispatched and not yet closed by a dispatched #endif.
RECURSIVE openIfs(_, _)
openIfs(ds, n) ==
  IF ds = <<>> THEN n
  ELSE LET k == Head(ds).kind IN
       openIfs(Tail(ds),
               CASE k = "TOK_M_IF" -> n + 1
                 [] k = "TOK_M_ENDIF" -> IF n > 0 THEN n - 1 ELSE 0
                 [] k = "TOK_M_ENDINPUT" /\ Head(ds).op = "directive" -> 0
                 [] OTHER -> n)

C6_Endinput ==
  /\ \A i \in 1..Len(events) :
        (events[i].kind = "TOK_M_ENDINPUT" /\ events[i].op \in {"directive", "inactive"}) =>
           LET j == IF events[i].op = "directive" THEN i + 1
                    ELSE MatchDone(i, "inactive", "inactive_done")
           IN IF stackActive(events[i].stack)
              THEN /\ events[i].op = "directive"
                   /\ events[j].pos = end_ /\ events[j].stack = <<>>
              ELSE /\ events[j].pos = events[i].pos
                   /\ events[j].stack = events[i].stack
  /\ (done /\ \E i \in 1..Len(directives) :
                  directives[i].kind = "TOK_M_ENDINPUT" /\ directives[i].active) =>
        ~\E k \in 1..Len(diags) : diags[k].id \in {"unterminated_if", "unterminated_else"}

(***************************************************************************)
(* C7.  A '#' is dispatched to the directive engine only as the first      *)
(* token on its line that is neither a comment nor white space; no         *)
(* directive is entered while the line of another directive is being       *)
(* lexed or chewed, in active mode or in skip mode.                        *)
(***************************************************************************)
RECURSIVE firstOnLine(_)
firstOnLine(i) ==
  IF i < 1 \/ buf[i] \in {LF, CR} THEN TRUE
  ELSE IF buf[i] \in {" ", TAB} THEN firstOnLine(i - 1)
  ELSE i > 1 /\ buf[i] = "/" /\ buf[i - 1] = "*"

C7_DirectiveOnlyFirstOnLine ==
  \A i \in EventsOf("enterPreprocessorDirective") :
     /\ ~events[i].lfd
     /\ firstOnLine(events[i].pos - 1)

(***************************************************************************)
(* C8.  While lexing_for_directive is true no scanning step increments     *)
(* line_number or clears lexed_tokens_on_line: a CR or LF met in directive *)
(* mode ends the directive as EOL and is not consumed.                     *)
(***************************************************************************)
C8_NoLineAdvanceInDirective ==
  /\ \A i \in EventsOf("advanceLine") : ~events[i].lfd
  /\ \A i \in 1..(Len(events) - 1) :
        (events[i].lfd /\ events[i+1].lfd) =>
           /\ events[i+1].line = events[i].line
           /\ events[i].ltol => events[i+1].ltol

(***************************************************************************)
(* C9.  Progress: a call to next that returns leaves the cursor strictly   *)
(* further forward than it found it, or enters a macro or a file, or       *)
(* returns end of file; also when the last token ends exactly at the end   *)
(* of the buffer.                                                          *)
(***************************************************************************)
C9_Progress ==
  \A i \in EventsOf("next_done") :
     \/ events[i].pos > events[1].pos
     \/ events[i].kind = "TOK_EOF"
     \/ Count("enterMacro") > 0
     \/ Count("enterFile") > 0

\* line terminators among the first n bytes, CR LF counted once
Terminators(n) ==
  Cardinality({i \in 1..n : buf[i] = CR \/ (buf[i] = LF /\ (i = 1 \/ buf[i - 1] # CR))})

(***************************************************************************)
(* C10.  Line counting: when the lexer has processed a prefix of the input *)
(* with n line terminators (CR, LF, or CR LF counted once), none inside a  *)
(* directive, line_number is 1 + n; also for the terminators the skip      *)
(* engine crosses and for the one that ends an unterminated string.        *)
(***************************************************************************)
C10_LineCounting ==
  (~hung /\ ~EndinputProcessed /\ ~\E i \in 1..Len(buf) : buf[i] = "*")
     => line_number_ = 1 + Terminators(pos_)

\* the last call returned, and this is the event of its return
Returned == events # <<>> /\ events[Len(events)].op = "next_done"

ReturnedKind == IF Returned THEN events[Len(events)].kind ELSE "TOK_NONE"

(***************************************************************************)
(* C11.  Cursor bounds: the cursor is always within the buffer, and after  *)
(* a completed token it is at the first byte the token did not consume: a  *)
(* NAME ends where its atom ends, an integer or hex literal where its      *)
(* digits end, so that every backup by one has undone a read that moved    *)
(* the cursor, also when that read met the end of the buffer.              *)
(***************************************************************************)
C11_CursorBounds ==
  /\ 0 <= pos_ /\ pos_ <= end_
  /\ ReturnedKind = "TOK_NAME" => pos_ = last.start + Len(last.atom)
  /\ ReturnedKind = "TOK_INTEGER_LITERAL" => pos_ = last.start + Len(literal_)
  /\ ReturnedKind = "TOK_HEX_LITERAL" => pos_ = last.start + 2 + Len(literal_)

\* the digits that start at offset p of the buffer, and their decimal value
RECURSIVE digitsAt(_)
digitsAt(p) == IF p < end_ /\ IsDigit(charAt(p)) THEN <<charAt(p)>> \o digitsAt(p + 1) ELSE <<>>

RECURSIVE DecimalValue(_)
DecimalValue(ds) ==
  IF ds = <<>> THEN 0 ELSE 10 * DecimalValue(SubSeq(ds, 1, Len(ds) - 1)) + DigitVal(ds[Len(ds)])

\* the event that began what event i ended: the last event with op begin before i
BeginOf(i, begin) ==
  CHOOSE j \in 1..(i - 1) :
    /\ events[j].op = begin
    /\ \A k \in (j + 1)..(i - 1) : events[k].op # begin

\* how often id was reported between events j and i of the last call
ReportedBetween(j, i, id) ==
  Cardinality({k \in (events[j].nd + 1)..events[i].nd : diags[k].id = id})

\* the decimal integer literals the last call decoded: the events of their end
IntegersDecoded ==
  {i \in EventsOf("handleNumber_done") : events[i].kind = "TOK_INTEGER_LITERAL"}

(***************************************************************************)
(* C12.  Integer round trip: for every decimal integer literal whose value *)
(* x is below the top bit of the accumulator's word, the payload is x and  *)
(* no int_literal_overflow is reported; when x does not fit the word,      *)
(* int_literal_overflow is reported exactly once and the token is still    *)
(* produced.                                                               *)
(***************************************************************************)
C12_IntegerRoundTrip ==
  \A i \in IntegersDecoded :
    LET b == BeginOf(i, "handleNumber")
        x == DecimalValue(digitsAt(events[i].start))
    IN /\ x < 2^(UintBits - 1) =>
            events[i].val = x /\ ReportedBetween(b, i, "int_literal_overflow") = 0
       /\ x > UintMax => ReportedBetween(b, i, "int_literal_overflow") = 1

(***************************************************************************)
(* C12, as the code has it.  The payload of a decimal integer literal      *)
(* whose value x is below the top bit of the word is x, with no            *)
(* int_literal_overflow; when x does not fit the word, the literal is      *)
(* still produced, and int_literal_overflow is reported exactly once       *)
(* unless errors are suppressed (the literal is in the rest of a directive *)
(* line that is being chewed), in which case nothing is reported.          *)
(***************************************************************************)
C12_IntegerRoundTripUnlessSuppressed ==
  \A i \in IntegersDecoded :
    LET b == BeginOf(i, "handleNumber")
        x == DecimalValue(digitsAt(events[i].start))
    IN /\ x < 2^(UintBits - 1) =>
            events[i].val = x /\ ReportedBetween(b, i, "int_literal_overflow") = 0
       /\ x > UintMax =>
            ReportedBetween(b, i, "int_literal_overflow") = (IF events[i].sup THEN 0 ELSE 1)

\* a literal that does not fit the word has been returned, reported once
C12_Witness ==
  /\ ReturnedKind = "TOK_INTEGER_LITERAL"
  /\ \E i \in IntegersDecoded :
       /\ DecimalValue(digitsAt(events[i].start)) > UintMax
       /\ ~events[i].sup
       /\ ReportedBetween(BeginOf(i, "handleNumber"), i, "int_literal_overflow") = 1

\* the hex digits that start at offset p of the buffer, and their base-16 value
RECURSIVE hexDigitsAt(_)
hexDigitsAt(p) ==
  IF p < end_ /\ IsHexDigit(charAt(p)) THEN <<charAt(p)>> \o hexDigitsAt(p + 1) ELSE <<>>

RECURSIVE HexValue(_)
HexValue(ds) ==
  IF ds = <<>> THEN 0
  ELSE 16 * HexValue(SubSeq(ds, 1, Len(ds) - 1)) + HexDigitToValue(ds[Len(ds)])

HexDecoded ==
  {i \in EventsOf("handleNumber_done") : events[i].kind = "TOK_HEX_LITERAL"}

in_hex_plus == <<"0","x","1","A"," ","+"," ","2",LF>>

(***************************************************************************)
(* C13.  Hex decoding: the payload of a hex literal 0x d1..dk whose value  *)
(* fits the word is the base-16 value of d1..dk; "0x1A + 2" yields         *)
(* HEX(26), PLUS, INTEGER(2), EOF.                                         *)
(***************************************************************************)
C13_HexDecoding ==
  /\ \A i \in HexDecoded :
       LET x == HexValue(hexDigitsAt(events[i].start + 2)) IN
         x <= UintMax => events[i].val = x
  /\ buf = in_hex_plus /\ done =>
       /\ concreteKinds(tokens) =
            <<"TOK_HEX_LITERAL", "TOK_PLUS", "TOK_INTEGER_LITERAL", "TOK_EOF">>
       /\ tokens[1].val = 26 /\ tokens[3].val = 2

\* how often the last call reported id
ReportedInCall(id) ==
  Cardinality({k \in (events[1].nd + 1)..Len(diags) : diags[k].id = id})

\* the last call returned a character literal that begins '\ and then c
ReturnedEscape(c) ==
  /\ ReturnedKind = "TOK_CHAR_LITERAL"
  /\ charAt(last.start + 1) = BSL
  /\ charAt(last.start + 2) = c

Prefix(ds, n) == SubSeq(ds, 1, IF Len(ds) < n THEN Len(ds) ELSE n)

\* the escape's digits end at offset p: an optional ';' is consumed, and when
\* the closing quote follows, the token ends after it without a complaint
EscapeEndsAt(p) ==
  LET q == IF charAt(p) = ";" THEN p + 1 ELSE p IN
    charAt(q) = SQ => pos_ = q + 1 /\ ReportedInCall("bad_char_terminator") = 0

(***************************************************************************)
(* C14.  The \x escape followed by one or two hex digits has the numeric   *)
(* value of those digits, and an optional ';' after them is consumed: the  *)
(* character literal '\x41;' is CHAR with value 65.                        *)
(***************************************************************************)
C14_HexEscape ==
  ReturnedEscape("x") =>
    LET ds == Prefix(hexDigitsAt(last.start + 3), 2) IN
      ds # <<>> =>
        /\ last.chr.code = HexValue(ds)
        /\ EscapeEndsAt(last.start + 3 + Len(ds))

(***************************************************************************)
(* C15.  The decimal escape \DDD has the decimal value of the whole run of *)
(* digits, whatever its length and also from 128 up; an optional ';' after *)
(* the digits is consumed, and otherwise the first character that is not a *)
(* digit is left unconsumed.                                               *)
(***************************************************************************)
C15_DecimalEscape ==
  ReturnedKind = "TOK_CHAR_LITERAL" /\ charAt(last.start + 1) = BSL
    /\ IsDigit(charAt(last.start + 2)) =>
    LET ds == digitsAt(last.start + 2)
        p == last.start + 2 + Len(ds)
    IN /\ last.chr.code = DecimalValue(ds)
       /\ EscapeEndsAt(p)
       /\ charAt(p) \notin {";", SQ, DQ, NUL} => pos_ = p

\* the number that starts at offset p has a '.' or an exponent 'e' (with an
\* optional '-') that no digit follows
BadFloatAt(p) ==
  LET q == p + Len(digitsAt(p))
      r == q + 1 + Len(digitsAt(q + 1))
      x == IF charAt(r + 1) = "-" THEN r + 2 ELSE r + 1
  IN /\ charAt(q) = "."
     /\ \/ ~IsDigit(charAt(q + 1))
        \/ charAt(r) = "e" /\ ~IsDigit(charAt(x))

(***************************************************************************)
(* C16.  Errors in a number are recoverable: for a number whose '.' or     *)
(* exponent 'e' is not followed by a digit, expected_digit_for_float is    *)
(* reported and the scan produces UNKNOWN, the call returns and lexing     *)
(* goes on; and no input fails the assertion of handleNumber.              *)
(***************************************************************************)
C16_NumberErrorsRecoverable ==
  /\ \A i \in EventsOf("handleNumber_done") :
       BadFloatAt(events[i].start) =>
         /\ events[i].kind = "TOK_UNKNOWN"
         /\ ReportedBetween(BeginOf(i, "handleNumber"), i, "expected_digit_for_float") = 1
  /\ \A k \in 1..Len(asserts) : asserts[k] # "handleNumber"

\* the diagnostics reported between events i and j of the last call
DiagsBetween(i, j) == {diags[k].id : k \in (events[i].nd + 1)..events[j].nd}

(***************************************************************************)
(* C17.  While the rest of a directive line is chewed, errors are          *)
(* suppressed: from the start to the end of chewLineAfterDirective no      *)
(* diagnostic is emitted but pp_extra_characters, and that one at most     *)
(* once; malformed content after a directive is discarded silently.        *)
(***************************************************************************)
C17_ChewIsSilent ==
  \A i \in EventsOf("chew") :
    LET j == MatchDone(i, "chew", "chew_done") IN
      j # 0 =>
        /\ DiagsBetween(i, j) \subseteq {"pp_extra_characters"}
        /\ ReportedBetween(i, j, "pp_extra_characters") <= 1

\* the identifier characters that start at offset p of the buffer
RECURSIVE identAt(_)
identAt(p) ==
  IF p < end_ /\ IsIdentChar(charAt(p)) THEN <<charAt(p)>> \o identAt(p + 1) ELSE <<>>

\* what handleIdentifier is to make of the identifier that event e ends
ClassifiedAs(e, k, colon) ==
  /\ e.kind = k
  /\ IF colon THEN e.pos = e.start + Len(e.lit) + 1
     ELSE e.pos <= e.start + Len(e.lit)

(***************************************************************************)
(* C18.  Identifier classification has a fixed priority.  With macro       *)
(* expansion enabled, an atom that is a defined macro gives NONE, also     *)
(* when it is a keyword or a ':' follows; otherwise a keyword atom gives   *)
(* its keyword kind and a following ':' stays unconsumed; otherwise an     *)
(* identifier with ':' right after it gives LABEL and the ':' is consumed; *)
(* otherwise NAME.  With expansion disabled a macro name is never          *)
(* expanded.                                                               *)
(***************************************************************************)
C18_IdentifierPriority ==
  \A i \in EventsOf("handleIdentifier") :
    LET e == events[i]
        atom == e.lit
    IN /\ atom = identAt(e.start)
       /\ IF e.mexp /\ atom \in e.nm THEN ClassifiedAs(e, "TOK_NONE", FALSE)
          ELSE IF findKeyword(atom) # "TOK_NONE"
          THEN ClassifiedAs(e, findKeyword(atom), FALSE)
          ELSE IF charAt(e.start + Len(atom)) = ":" THEN ClassifiedAs(e, "TOK_LABEL", TRUE)
          ELSE ClassifiedAs(e, "TOK_NAME", FALSE)

\* a macro whose name is a keyword, with ':' after it, has been entered
C18_Witness ==
  \E i \in EventsOf("handleIdentifier") :
    /\ events[i].mexp /\ events[i].lit \in events[i].nm
    /\ findKeyword(events[i].lit) # "TOK_NONE"
    /\ charAt(events[i].start + Len(events[i].lit)) = ":"
    /\ events[i].kind = "TOK_NONE"
    /\ Returned


\* the events of the directive that event i dispatched, up to its return
DirectiveSpan(i) ==
  LET j == MatchDone(i, "directive", "directive_done")
  IN (i + 1)..(IF j = 0 THEN Len(events) ELSE j - 1)

\* the identifier scans in the handler of a #define or an #undef
OperandScans ==
  {j \in EventsOf("handleIdentifier") :
     \E i \in EventsOf("directive") :
        /\ events[i].kind \in {"TOK_M_DEFINE", "TOK_M_UNDEF"}
        /\ j \in DirectiveSpan(i)}

(***************************************************************************)
(* C19.  While #define and #undef are handled, identifiers are scanned     *)
(* with macro expansion disabled: enterMacro, which handleIdentifier calls *)
(* exactly when expansion is enabled, is never called, no scan gives NONE, *)
(* and a name that is a defined macro (no keyword, no ':' after it) is     *)
(* returned as NAME.                                                       *)
(***************************************************************************)
C19_DefineUndefUnexpanded ==
  \A j \in OperandScans :
    LET e == events[j] IN
    /\ ~e.mexp
    /\ e.kind # "TOK_NONE"
    /\ (e.lit \in e.nm /\ findKeyword(e.lit) = "TOK_NONE"
          /\ charAt(e.start + Len(e.lit)) # ":") => e.kind = "TOK_NAME"


\* the first offset from p on whose byte is no skippable space
RECURSIVE skipSpaceFrom(_)
skipSpaceFrom(p) ==
  IF p < end_ /\ IsSkipSpace(charAt(p)) THEN skipSpaceFrom(p + 1) ELSE p

\* the first offset from p on whose byte is match or ends the line
RECURSIVE closingFrom(_, _)
closingFrom(p, match) ==
  IF charAt(p) = match \/ IsLineTerminator(charAt(p)) THEN p
  ELSE closingFrom(p + 1, match)

\* the operand of the #include whose keyword ends at offset p: where its
\* opening delimiter is to be, the closing delimiter, and where that is to be
IncludeOpen(p) == skipSpaceFrom(p)

IncludeMatch(p) == IF charAt(IncludeOpen(p)) = DQ THEN DQ ELSE ">"

IncludeClose(p) == closingFrom(IncludeOpen(p) + 1, IncludeMatch(p))

ProperlyDelimited(p) ==
  /\ charAt(IncludeOpen(p)) \in {DQ, "<"}
  /\ charAt(IncludeClose(p)) = IncludeMatch(p)

\* the bytes between the delimiters
DelimitedName(p) == SubSeq(buf, IncludeOpen(p) + 2, IncludeClose(p))

IncludesDispatched ==
  {i \in EventsOf("directive") : events[i].kind \in {"TOK_M_INCLUDE", "TOK_M_TRYINCLUDE"}}

(***************************************************************************)
(* C20.  An #include or #tryinclude with a properly delimited filename     *)
(* calls enterFile once, with exactly the bytes between the delimiters,    *)
(* whatever follows the closing delimiter on the line, and after the rest  *)
(* of the line has been chewed; with a delimiter missing it reports        *)
(* bad_include_syntax and does not call enterFile.                         *)
(***************************************************************************)
C20_IncludeFilename ==
  \A i \in IncludesDispatched :
    LET p == events[i].pos
        files == {j \in DirectiveSpan(i) : events[j].op = "enterFile"}
        j == MatchDone(i, "directive", "directive_done")
    IN j # 0 =>
       IF ProperlyDelimited(p)
       THEN /\ Cardinality(files) = 1
            /\ \A f \in files :
                 /\ events[f].lit = DelimitedName(p)
                 /\ events[f].kind = events[i].kind
                 /\ \E k \in (i + 1)..(f - 1) : events[k].op = "chew_done"
                 /\ IsLineTerminator(charAt(events[f].pos))
            /\ includes # <<>> /\ includes[Len(includes)].file = DelimitedName(p)
       ELSE /\ files = {}
            /\ "bad_include_syntax" \in DiagsBetween(i, j)

\* the first offset from p on whose byte ends the line
RECURSIVE lineEndFrom(_)
lineEndFrom(p) == IF IsLineTerminator(charAt(p)) THEN p ELSE lineEndFrom(p + 1)

\* the offset after the first "*/" from p on, or the end of the buffer
RECURSIVE blockEndFrom(_)
blockEndFrom(p) ==
  IF p >= end_ THEN end_
  ELSE IF charAt(p) = "*" /\ charAt(p + 1) = "/" THEN p + 2
  ELSE blockEndFrom(p + 1)

\* the buffer from offset p on with its comments removed
RECURSIVE stripFrom(_)
stripFrom(p) ==
  IF p >= end_ THEN <<>>
  ELSE IF charAt(p) = "/" /\ charAt(p + 1) = "/" THEN stripFrom(lineEndFrom(p))
  ELSE IF charAt(p) = "/" /\ charAt(p + 1) = "*" THEN stripFrom(blockEndFrom(p + 2))
  ELSE <<charAt(p)>> \o stripFrom(p + 1)

StripComments == stripFrom(0)

RECURSIVE leadingIdent(_)
leadingIdent(t) ==
  IF t # <<>> /\ IsIdentChar(t[1]) THEN <<t[1]>> \o leadingIdent(Tail(t)) ELSE <<>>

kindsOf(toks) == [i \in 1..Len(toks) |-> toks[i].kind]

\* the token kinds of a text of identifiers and white space: a macro gives
\* the kinds of its body, another identifier NAME, the end EOF
RECURSIVE wordKinds(_)
wordKinds(t) ==
  IF t = <<>> THEN <<"TOK_EOF">>
  ELSE IF IsIdentStart(t[1])
  THEN LET w == leadingIdent(t)
       IN (IF w \in DOMAIN macros THEN kindsOf(macros[w]) ELSE <<"TOK_NAME">>)
            \o wordKinds(SubSeq(t, Len(w) + 1, Len(t)))
  ELSE wordKinds(Tail(t))

\* the kinds the parser has received, NONE and COMMENT left out
ReceivedKinds ==
  LET isToken(k) == k # "TOK_COMMENT" IN SelectSeq(concreteKinds(tokens), isToken)

IsPrefix(a, b) == Len(a) <= Len(b) /\ a = SubSeq(b, 1, Len(a))

\* the lexer gives a text without comments the kinds of its words
CommentFreeLexing ==
  StripComments = buf =>
    /\ IsPrefix(ReceivedKinds, wordKinds(buf))
    /\ done => ReceivedKinds = wordKinds(buf)

(***************************************************************************)
(* C21.  Comments never change the token stream.  With comment tracing on  *)
(* or off, the kinds next returns for an input, comments left out, are     *)
(* those it returns for the input with its comments removed (which is an   *)
(* input too, and lexes to the kinds of its words): at every moment a      *)
(* prefix of them, and all of them once EOF is returned.  A tail-comment   *)
(* block never consumes a non-comment token.                               *)
(***************************************************************************)
C21_CommentsTransparent ==
  /\ StripComments \in CommentInputs
  /\ CommentFreeLexing
  /\ IsPrefix(ReceivedKinds, wordKinds(StripComments))
  /\ done => ReceivedKinds = wordKinds(StripComments)

\* the last call returned a string literal that no quote closes on its line;
\* its body has no escape code
ReturnedOpenString ==
  /\ ReturnedKind = "TOK_STRING_LITERAL"
  /\ charAt(last.start) = DQ
  /\ charAt(closingFrom(last.start + 1, DQ)) # DQ
  /\ \A p \in (last.start + 1)..closingFrom(last.start + 1, DQ) : charAt(p) # BSL

(***************************************************************************)
(* C22.  An unterminated string, one with CR, LF or NUL before the closing *)
(* quote, reports unterminated_string and is still returned as a           *)
(* STRING_LITERAL, whose atom is the body read up to there.                *)
(***************************************************************************)
C22_UnterminatedString ==
  ReturnedOpenString =>
    /\ ReportedInCall("unterminated_string") = 1
    /\ last.atom = SubSeq(buf, last.start + 2, closingFrom(last.start + 1, DQ))

\* a macro name stands before offset q on the line of q
MacroUseBefore(q) ==
  \E p \in 0..(q - 1) :
    /\ \A k \in p..(q - 1) : ~IsLineTerminator(charAt(k))
    /\ p = 0 \/ ~IsIdentChar(charAt(p - 1))
    /\ identAt(p) \in DOMAIN macros

\* the last call returned NONE because it expanded a macro
ReturnedExpansion ==
  /\ ReturnedKind = "TOK_NONE"
  /\ Len(events) > 1
  /\ events[Len(events) - 1].op = "handleIdentifier"
  /\ events[Len(events) - 1].kind = "TOK_NONE"

(***************************************************************************)
(* C23.  next writes lexed_tokens_on_line only when the token kind is not  *)
(* NONE.  After a call that gave NONE because an identifier was expanded   *)
(* as a macro, lexed_tokens_on_line is true, so that a '#' later on the    *)
(* line of a macro use is not dispatched as a directive.                   *)
(***************************************************************************)
C23_ExpansionMarksLine ==
  /\ ReturnedExpansion => lexed_tokens_on_line_
  /\ \A i \in EventsOf("enterPreprocessorDirective") :
       ~MacroUseBefore(events[i].pos - 1)

\* the diagnostic the end-of-file check owes for the open context ix
EndOfFileDiag(ix) ==
  IF isSet(ix.elseloc) THEN [id |-> "unterminated_else", loc |-> ix.elseloc]
  ELSE [id |-> "unterminated_if", loc |-> ix.first]

(***************************************************************************)
(* C24.  The end-of-file check with a non-empty if-stack reports exactly   *)
(* one diagnostic: unterminated_else at the else location of the top       *)
(* context if that is set, otherwise unterminated_if at the location of    *)
(* its #if; with an empty if-stack it reports nothing; it leaves the       *)
(* if-stack as it found it.                                                *)
(***************************************************************************)
C24_EndOfFileCheck ==
  \A i \in EventsOf("checkIfStackAtEndOfFile") :
    /\ i < Len(events)
    /\ events[i + 1].op = "handleEndOfFile"
    /\ events[i + 1].stack = events[i].stack
    /\ IF events[i].stack = <<>>
       THEN events[i + 1].nd = events[i].nd
       ELSE /\ events[i + 1].nd = events[i].nd + 1
            /\ diags[events[i + 1].nd] = EndOfFileDiag(top(events[i].stack))

\* end of file was met in succession with an #if open, with its #else seen
C24_Witness ==
  \E i \in EventsOf("checkIfStackAtEndOfFile") :
    /\ events[i].stack # <<>>
    /\ isSet(top(events[i].stack).elseloc)
    /\ Returned
    /\ ReturnedKind = "TOK_EOF"
    /\ diags # <<>> /\ diags[Len(diags)].id = "unterminated_else"

\* every context above a context that is not Active is Dead
WellShaped(stack) ==
  \A i \in DOMAIN stack : \A j \in DOMAIN stack :
    (i < j /\ stack[i].state # "Active") => stack[j].state = "Dead"

(***************************************************************************)
(* C25.  Shape of the if-stack: in every reachable state, between calls    *)
(* and at every step inside a call, every context above a non-Active       *)
(* context is Dead; so when the top context is Active all contexts are,    *)
(* and normal lexing never resumes inside a region nested in a skipped     *)
(* region.                                                                 *)
(***************************************************************************)
C25_IfStackShape ==
  /\ WellShaped(ifstack_)
  /\ \A i \in DOMAIN events : WellShaped(events[i].stack)

\* what the else location of a context tells of its state
ElseCorrelated(stack) ==
  \A i \in DOMAIN stack :
    /\ stack[i].state \in {"Ignoring", "Dead"} => ~isSet(stack[i].elseloc)
    /\ stack[i].state = "Inactive" => isSet(stack[i].elseloc)

\* an Active context that has an else location
Flipped(ix) == ix.state = "Active" /\ isSet(ix.elseloc)

\* From if-stack p to if-stack n, one step later: a context enters without
\* else location; it comes to be Active with an else location only from
\* Ignoring, by the #else that flips it; an Ignoring context changes in no
\* other way; an Active one without else location stays so while Active.
FlipStep(p, n) ==
  \A i \in DOMAIN n :
    IF i \in DOMAIN p /\ p[i].first = n[i].first
    THEN /\ (Flipped(n[i]) /\ ~Flipped(p[i])) => p[i].state = "Ignoring"
         /\ (p[i].state = "Ignoring" /\ n[i] # p[i]) => Flipped(n[i])
         /\ (p[i].state = "Active" /\ ~isSet(p[i].elseloc) /\ n[i].state = "Active")
               => n[i] = p[i]
    ELSE ~isSet(n[i].elseloc)

(***************************************************************************)
(* C26.  State and else location go together: in every reachable state,    *)
(* between calls and at every step inside a call, a context that is        *)
(* Ignoring or Dead has no else location, and a context that is Inactive   *)
(* has one; an Active context has an else location exactly when it was     *)
(* pushed as Ignoring and then flipped by #else, which the steps of the    *)
(* if-stack show one by one.                                               *)
(***************************************************************************)
C26_StateElseCorrelation ==
  /\ ElseCorrelated(ifstack_)
  /\ \A i \in DOMAIN events : ElseCorrelated(events[i].stack)
  /\ \A i \in 1..(Len(events) - 1) : FlipStep(events[i].stack, events[i + 1].stack)
  /\ events # <<>> => (hung \/ events[Len(events)].stack = ifstack_)

\* in one call a context was pushed as Ignoring and flipped by #else
C26_Witness ==
  /\ Returned
  /\ \E k \in DOMAIN ifstack_ :
        /\ Flipped(ifstack_[k])
        /\ \E i \in DOMAIN events :
              /\ k \in DOMAIN events[i].stack
              /\ events[i].stack[k].state = "Ignoring"
              /\ events[i].stack[k].first = ifstack_[k].first

\* the scoped flags as event e recorded them
ScopedFlags(e) == <<e.lfd, e.sup, e.mexp>>

(***************************************************************************)
(* C27.  Scoped flags are restored: when enterPreprocessorDirective        *)
(* returns, on every path (success, every error return, after the skip     *)
(* engine ran, and when it was entered from the chew of another            *)
(* directive), lexing_for_directive, suppress_errors and the               *)
(* preprocessor's macro_expansion have the values they had on entry.       *)
(***************************************************************************)
C27_ScopedFlagsRestored ==
  /\ \A i \in EventsOf("enterPreprocessorDirective") :
       LET j == MatchDone(i, "enterPreprocessorDirective", "enterPreprocessorDirective_done")
       IN j # 0 => ScopedFlags(events[j]) = ScopedFlags(events[i])
  /\ Returned => /\ lexing_for_directive_ = events[1].lfd
                 /\ suppress_errors_ = events[1].sup
                 /\ macro_expansion = events[1].mexp

\* a #define was handled, with macro expansion disabled while its body was
\* read
C27_Witness ==
  /\ Returned
  /\ \E i \in EventsOf("enterPreprocessorDirective") :
       LET j == MatchDone(i, "enterPreprocessorDirective", "enterPreprocessorDirective_done")
       IN /\ j # 0
          /\ ScopedFlags(events[i]) = <<FALSE, FALSE, TRUE>>
          /\ \E k \in (i + 1)..(j - 1) : events[k].lfd /\ ~events[k].mexp

=============================================================================
